---- MODULE Spec2Model ----
(***************************************************************************)
(* Source monitoring and article ingestion of wildlife-blog-tool: the      *)
(* watched-source store, the article store, the scheduled (cron) and the   *)
(* manual sweep, the due-for-fetch selection and the SSRF guard of         *)
(* fetchAndExtractPage.  Times are milliseconds, as Date.now() returns     *)
(* them; an ISO timestamp is modelled by the millisecond value it parses   *)
(* back to, and null by NullTime.                                          *)
(***************************************************************************)
EXTENDS Integers, Sequences, FiniteSets, TLC

\* ---------------------------------------------------------------- bounds
MaxItems == 1
MaxTicks == 1
MaxSweeps == 2
MaxEdits == 1
MaxThrows == 1
MaxTerms == 2
MaxContainers == 2
MaxFeedItems == 2
MaxInits == 2
MaxAgeHours == 2

\* ------------------------------------------------------------- constants
HourMs == 60 * 60 * 1000
MinuteMs == 60 * 1000
NewWindowMs == 5000
NullTime == -1

Procs == {"cron", "manual"}
SourceIds == {1, 2}

\* ------------------------------------------------------------------ URLs
\* A URL as new URL(url) parses it: protocol, credentials, hostname and
\* path; a hostname is a literal IPv4 address (first two octets a, b) or a
\* name (its labels).
MkUrl(scheme, creds, kind, name, a, b, path) ==
    [scheme |-> scheme, creds |-> creds, kind |-> kind, name |-> name, a |-> a, b |-> b,
     path |-> path]

UrlPublic == MkUrl("https", FALSE, "name", <<"news", "example">>, 0, 0, "/feed")
UrlPrivate == MkUrl("http", FALSE, "ip4", <<>>, 192, 168, "/feed")
UrlArticle == MkUrl("https", FALSE, "name", <<"news", "example">>, 0, 0, "/a1")
UrlNone == MkUrl("", FALSE, "name", <<>>, 0, 0, "")

InputUrls == {UrlPublic, UrlPrivate}

ArticleUrls == {UrlArticle}

\* An address dns.lookup returns: IPv4, first two octets.
MkIp(a, b) == [family |-> 4, a |-> a, b |-> b]
\* An IPv6 address: its first group and its last group, the groups between
\* them zero (::1 is first 0, last 1).
MkIp6(first, last) == [family |-> 6, a |-> first, b |-> last]
Titles == {"t1", "t2"}
IntervalChoices == {1}

\* What dns.lookup may answer: any set of these addresses.
AnswerIps == {MkIp(93, 184), MkIp(8, 8), MkIp(10, 0), MkIp(127, 0), MkIp(169, 254),
              MkIp(172, 20), MkIp(192, 168), MkIp(100, 64)}
DnsAnswers == SUBSET AnswerIps
\* IPv6 addresses it may answer: ::1, fe80::1, fe90::1, febf::1, fc00::1,
\* fdff::1, 2001::1, and an IPv4 address.
AnswerIps6 == {MkIp6(0, 1), MkIp6(65152, 1), MkIp6(65168, 1), MkIp6(65215, 1),
               MkIp6(64512, 1), MkIp6(65023, 1), MkIp6(8193, 1), MkIp(93, 184)}
DnsAnswers6 == {answer \in SUBSET AnswerIps6 : Cardinality(answer) <= 2}
\* What it may answer for the host of an article.
SaveAnswers == {{}, {MkIp(93, 184)}, {MkIp(93, 184), MkIp(10, 0)}}

VARIABLES
    now,            \* Date.now()
    sources,        \* watched-sources.json: sequence of WatchedSource
    articles,       \* articles directory: set of FetchedArticle
    wire,           \* content requests the last step put on the network
    reply,          \* status and error the last step answered a dashboard request with
    robotsChecked,  \* URLs checkRobotsTxt answered allowed = true for
    robotsCache,    \* robotsCache: the entries of the Map, one per origin
    robot,          \* checkRobotsTxt: position, URL, now, origin, result
    tag,            \* tagArticle: position, article, orgProfile, result
    page,           \* parseHtmlNewsPage: position, url, containers, result
    feed,           \* parseRssFeed: position, items of the feed, result
    detect,         \* detectFeedType: position, url, page title, feed link, result
    storage,        \* storage factory: cachedProvider, initPromise, the promises, the callers
    articleStore,   \* article store of a provider: position, provider, score passed in, row, record returned
    fetcher,        \* fetchAndExtractPage: position, URL, DNS answer, error
    sweeps,         \* sweeps started so far
    edits,          \* edits made by the dashboard so far
    throws,         \* fetches and writes that have thrown so far
    pc,             \* per sweep: position in POST / fetchSourceArticles
    mode,           \* per sweep: "cron", "single", "all"
    selected,       \* per sweep: ids of the sources the sweep took at its start
    queue,          \* per sweep: sources still to process
    cur,            \* per sweep: source being processed (the fields read: id, url)
    item,           \* per sweep: article of the current loop iteration
    left,           \* per sweep: parsed articles after the current one
    saved,          \* per sweep: record addArticle returned
    created,        \* per sweep: adds for this source that wrote a record
    newArticles,    \* per sweep: newArticles of the current source
    errors,         \* per sweep: errors of the current source
    results,        \* per sweep: results array
    status,         \* per sweep: status of the response
    snapshot,       \* per sweep: sources read by updateWatchedSource
    stampAt         \* per sweep: new Date() passed to updateWatchedSource

sweepVars == <<pc, mode, selected, queue, cur, item, left, saved, created,
               newArticles, errors, results, status, snapshot, stampAt>>
storeVars == <<sources, articles>>
robotVars == <<robotsChecked, robotsCache, robot>>
pureVars == <<tag, page, feed, detect, storage, articleStore>>
vars == <<now, storeVars, wire, reply, robotVars, pureVars, fetcher, sweeps, edits, throws, sweepVars>>

NoSource == [id |-> 0, url |-> UrlPublic]
NoArticle == [id |-> 0, sourceId |-> 0, url |-> UrlNone, title |-> "",
              fetchedAt |-> NullTime, savedToKnowledge |-> FALSE]
NoItem == [url |-> UrlNone, title |-> ""]
NoIp == [family |-> 0, a |-> 0, b |-> 0]
\* NextResponse.json(body, {status}): the status and the error of the body.
Reply(code, message) == [status |-> code, error |-> message]
NoReply == Reply(0, "")
NoTag == [matchedKeywords |-> <<>>, relevanceScore |-> -1]
TagIdle == [pc |-> "idle", article |-> [title |-> {}, excerpt |-> {}],
            orgProfile |-> [focusAreas |-> <<>>, preferredTerms |-> <<>>, objectives |-> <<>>],
            result |-> NoTag]
PageIdle == [pc |-> "idle", url |-> UrlNone, containers |-> <<>>, result |-> <<>>]
FeedIdle == [pc |-> "idle", items |-> <<>>, result |-> <<>>]
NoDetected == [type |-> "", feedUrl |-> UrlNone, name |-> [title |-> "", host |-> <<>>]]
DetectIdle == [pc |-> "idle", url |-> UrlNone, pageTitle |-> "", rssUrl |-> UrlNone,
               result |-> NoDetected, error |-> ""]
Callers == {1, 2}
CallerIdle == [pc |-> "idle", via |-> "", promise |-> 0, got |-> 0]
StorageIdle == [cachedProvider |-> 0, instances |-> 0, initPromise |-> 0, promises |-> <<>>,
                legacy |-> "none", callers |-> [c \in Callers |-> CallerIdle]]
NoRow == -1
ArticleStoreIdle == [pc |-> "idle", provider |-> "", relevanceScore |-> 0, row |-> NoRow,
                     error |-> "", got |-> NoRow]
NoResult == [allowed |-> FALSE, crawlDelay |-> 0, reason |-> ""]
NoOrigin == [scheme |-> "", kind |-> "name", name |-> <<>>, a |-> 0, b |-> 0]
RobotIdle == [pc |-> "idle", url |-> UrlNone, now |-> 0, origin |-> NoOrigin, result |-> NoResult]
FetcherIdle == [pc |-> "idle", url |-> UrlNone, lookups |-> {}, error |-> "", peer |-> NoIp]

\* No request in flight, no sweep running.
InitIdle ==
    /\ wire = {}
    /\ reply = NoReply
    /\ robotsChecked = {}
    /\ robotsCache = {}
    /\ robot = RobotIdle
    /\ tag = TagIdle
    /\ page = PageIdle
    /\ feed = FeedIdle
    /\ detect = DetectIdle
    /\ storage = StorageIdle
    /\ articleStore = ArticleStoreIdle
    /\ fetcher = FetcherIdle
    /\ sweeps = 0
    /\ edits = 0
    /\ throws = 0
    /\ pc = [p \in Procs |-> "idle"]
    /\ mode = [p \in Procs |-> "none"]
    /\ selected = [p \in Procs |-> <<>>]
    /\ queue = [p \in Procs |-> <<>>]
    /\ cur = [p \in Procs |-> NoSource]
    /\ item = [p \in Procs |-> NoItem]
    /\ left = [p \in Procs |-> 0]
    /\ saved = [p \in Procs |-> NoArticle]
    /\ created = [p \in Procs |-> 0]
    /\ newArticles = [p \in Procs |-> 0]
    /\ errors = [p \in Procs |-> <<>>]
    /\ results = [p \in Procs |-> <<>>]
    /\ status = [p \in Procs |-> 0]
    /\ snapshot = [p \in Procs |-> <<>>]
    /\ stampAt = [p \in Procs |-> 0]

Init ==
    /\ now = 0
    /\ sources = <<>>
    /\ articles = {}
    /\ InitIdle

\* ----------------------------------------------------------------- clock
\* Time passes: d milliseconds, up to the horizon.
Tick(d) ==
    /\ now + d <= MaxTicks * d
    /\ now' = now + d
    /\ reply' = NoReply
    /\ wire' = {}
    /\ UNCHANGED <<storeVars, robotVars, pureVars, fetcher, sweeps, edits, throws, sweepVars>>

\* ------------------------------------------------- watched-source store
\* isDue with a strict comparison.
isDueStrict(s, t) ==
    IF ~s.enabled THEN FALSE
    ELSE IF s.lastFetchedAt = NullTime THEN TRUE
    ELSE t - s.lastFetchedAt > s.fetchIntervalHours * 60 * 60 * 1000

\* getDueForFetch: the filter callback, with its early returns.
isDue(s, t) ==
    IF ~s.enabled THEN FALSE
    ELSE IF s.lastFetchedAt = NullTime THEN TRUE
    ELSE LET lastFetch == s.lastFetchedAt
             intervalMs == s.fetchIntervalHours * 60 * 60 * 1000
         IN  t - lastFetch >= intervalMs

\* getDueForFetch that returns the first due source alone.
getDueForFetchFirst(srcs, t) ==
    LET due == SelectSeq(srcs, LAMBDA s : isDue(s, t))
    IN  IF due = <<>> THEN <<>> ELSE <<Head(due)>>

getDueForFetch(srcs, t) == SelectSeq(srcs, LAMBDA s : isDue(s, t))

findIndex(srcs, id) ==
    IF \E i \in 1..Len(srcs) : srcs[i].id = id
    THEN CHOOSE i \in 1..Len(srcs) : srcs[i].id = id /\ \A j \in 1..(i-1) : srcs[j].id # id
    ELSE 0

\* enabledSources without its filter.
everySource(srcs) == srcs

enabledSources(srcs) == SelectSeq(srcs, LAMBDA s : s.enabled)

IdsOf(srcs) == [i \in 1..Len(srcs) |-> srcs[i].id]

\* crypto.randomUUID(): an id no stored source has.
freshSourceId(srcs) ==
    CHOOSE i \in SourceIds :
        /\ \A k \in 1..Len(srcs) : srcs[k].id # i
        /\ \A j \in SourceIds : (\A k \in 1..Len(srcs) : srcs[k].id # j) => i <= j

\* ---------------------------------------------------------- article store
\* getByUrl that finds nothing.
getByUrlMiss(arts, url) == {}

\* getByUrl: list() sorts by fetchedAt descending, find() takes the first
\* record with the URL; the order of equal fetchedAt is readdir's.
getByUrl(arts, url) ==
    {a \in arts : a.url = url /\ \A b \in arts : b.url = url => b.fetchedAt <= a.fetchedAt}

\* crypto.randomUUID(): an id no stored article has.
freshArticleId(arts) ==
    CHOOSE i \in 1..(Cardinality(arts) + 1) :
        /\ \A a \in arts : a.id # i
        /\ \A j \in 1..(i - 1) : \E a \in arts : a.id = j

\* markSaved writing the record back with a new fetchedAt.
markSavedRestamped(arts, a) ==
    (arts \ {a}) \cup {[a EXCEPT !.savedToKnowledge = TRUE, !.fetchedAt = a.fetchedAt + 1]}

\* markSaved: getById, set the flag, write the file back.
markSaved(arts, a) ==
    (arts \ {a}) \cup {[a EXCEPT !.savedToKnowledge = TRUE]}

Candidates == [url : ArticleUrls, title : Titles]

\* ------------------------------------------------------ the Safe Fetcher
\* The hexadecimal digits of the first group as the text of the address
\* has them: lower case, no leading zeros, none at all for a group that the
\* "::" of the text swallows.
RECURSIVE hexDigits(_)
hexDigits(n) == IF n = 0 THEN <<>> ELSE Append(hexDigits(n \div 16), n % 16)

\* normalized.startsWith(prefix), the prefix hexadecimal digits.
startsWithHex(ip, prefix) ==
    LET digits == hexDigits(ip.a)
    IN  Len(digits) >= Len(prefix) /\ SubSeq(digits, 1, Len(prefix)) = prefix

\* normalized.startsWith(group + ":")
startsWithGroup(ip, group) == hexDigits(ip.a) = group

\* isPrivateIp without the carrier-grade NAT test.
isPrivateIpNoCgnat(ip) ==
    IF ip.family = 4
    THEN LET a == ip.a
             b == ip.b
         IN  IF a = 10 THEN TRUE
             ELSE IF a = 127 THEN TRUE
             ELSE IF a = 0 THEN TRUE
             ELSE IF a = 169 /\ b = 254 THEN TRUE
             ELSE IF a = 172 /\ b >= 16 /\ b <= 31 THEN TRUE
             ELSE IF a = 192 /\ b = 168 THEN TRUE
             ELSE IF a >= 224 THEN TRUE
             ELSE FALSE
    ELSE IF ip.family = 6
    THEN IF ip.a = 0 /\ ip.b = 1 THEN TRUE
         ELSE IF startsWithGroup(ip, <<15, 14, 8, 0>>) THEN TRUE
         ELSE IF startsWithHex(ip, <<15, 12>>) \/ startsWithHex(ip, <<15, 13>>) THEN TRUE
         ELSE FALSE
    ELSE TRUE

\* isPrivateIp: the IPv4 and the IPv6 branch, test by test; an address that
\* is neither IPv4 nor IPv6 is private.
isPrivateIp(ip) ==
    IF ip.family = 4
    THEN LET a == ip.a
             b == ip.b
         IN  IF a = 10 THEN TRUE
             ELSE IF a = 127 THEN TRUE
             ELSE IF a = 0 THEN TRUE
             ELSE IF a = 169 /\ b = 254 THEN TRUE
             ELSE IF a = 172 /\ b >= 16 /\ b <= 31 THEN TRUE
             ELSE IF a = 192 /\ b = 168 THEN TRUE
             ELSE IF a = 100 /\ b >= 64 /\ b <= 127 THEN TRUE
             ELSE IF a >= 224 THEN TRUE
             ELSE FALSE
    ELSE IF ip.family = 6
    THEN IF ip.a = 0 /\ ip.b = 1 THEN TRUE
         ELSE IF startsWithGroup(ip, <<15, 14, 8, 0>>) THEN TRUE
         ELSE IF startsWithHex(ip, <<15, 12>>) \/ startsWithHex(ip, <<15, 13>>) THEN TRUE
         ELSE FALSE
    ELSE TRUE

\* hostname.endsWith(".local")
endsWithLocal(name) == Len(name) >= 2 /\ name[Len(name)] = "local"

\* assertSafeHttpUrl up to dns.lookup: the error thrown, "ok" for a public
\* literal address, "lookup" for a name to resolve.
beforeLookup(u) ==
    IF u.scheme # "http" /\ u.scheme # "https" THEN "Only http/https URLs are allowed"
    ELSE IF u.creds THEN "Credentials in URL are not allowed"
    ELSE IF u.name = <<"localhost">> \/ endsWithLocal(u.name) THEN "Localhost URLs are blocked"
    ELSE IF u.kind = "ip4"
         THEN IF isPrivateIp(MkIp(u.a, u.b)) THEN "Private network URLs are blocked" ELSE "ok"
    ELSE "lookup"   \* also "[::1]": net.isIP of a hostname in brackets is 0

\* assertSafeHttpUrl after dns.lookup(hostname, {all: true}) answered lookups.
afterLookup(lookups) ==
    IF lookups = {} THEN "Could not resolve host"
    ELSE IF \E ip \in lookups : isPrivateIp(ip) THEN "Private network URLs are blocked"
    ELSE "ok"

assertSafeHttpUrl(u, lookups) ==
    IF beforeLookup(u) = "lookup" THEN afterLookup(lookups) ELSE beforeLookup(u)

\* fetchAndExtractPage(inputUrl): assertSafeHttpUrl first.
FetchStart(u) ==
    /\ fetcher.pc = "idle"
    /\ LET r == beforeLookup(u)
       IN  fetcher' = [pc |-> IF r = "lookup" THEN "lookup" ELSE IF r = "ok" THEN "fetch"
                                                             ELSE "rejected",
                       url |-> u, lookups |-> {}, peer |-> NoIp,
                       error |-> IF r \in {"lookup", "ok"} THEN "" ELSE r]
    /\ reply' = NoReply
    /\ wire' = {}
    /\ UNCHANGED <<now, storeVars, robotVars, pureVars, sweeps, edits, throws, sweepVars>>

\* dns.lookup answers, and the loop over the addresses; a hostname in
\* brackets resolves to nothing.
FetchLookup(lookups) ==
    /\ fetcher.pc = "lookup"
    /\ fetcher.url.kind = "ip6" => lookups = {}
    /\ LET r == afterLookup(lookups)
       IN  fetcher' = [fetcher EXCEPT !.pc = IF r = "ok" THEN "fetch" ELSE "rejected",
                                      !.lookups = lookups,
                                      !.error = IF r = "ok" THEN "" ELSE r]
    /\ reply' = NoReply
    /\ wire' = {}
    /\ UNCHANGED <<now, storeVars, robotVars, pureVars, sweeps, edits, throws, sweepVars>>

\* fetch(url, ...): the GET of the URL string; fetch resolves the hostname
\* of the URL by itself and connects to peer, an address of that second
\* answer.  A status that is not ok throws.
FetchRequest(ok, peer) ==
    /\ fetcher.pc = "fetch"
    /\ peer \in (IF fetcher.url.kind = "ip4" THEN {MkIp(fetcher.url.a, fetcher.url.b)}
                 ELSE AnswerIps \cup AnswerIps6)
    /\ fetcher' = [fetcher EXCEPT !.pc = "done", !.peer = peer,
                                  !.error = IF ok THEN "" ELSE "Fetch failed"]
    /\ reply' = NoReply
    /\ wire' = {fetcher.url}
    /\ UNCHANGED <<now, storeVars, robotVars, pureVars, sweeps, edits, throws, sweepVars>>

\* The page is returned, or the error thrown, to the caller.
FetchReturn ==
    /\ fetcher.pc \in {"rejected", "done"}
    /\ fetcher' = FetcherIdle
    /\ reply' = NoReply
    /\ wire' = {}
    /\ UNCHANGED <<now, storeVars, robotVars, pureVars, sweeps, edits, throws, sweepVars>>

\* ------------------------------------------------------- the robots check
\* getOrigin: protocol and host of the URL.
getOrigin(u) == [scheme |-> u.scheme, kind |-> u.kind, name |-> u.name, a |-> u.a, b |-> u.b]

\* `${origin}/robots.txt`
robotsUrlOf(origin) ==
    MkUrl(origin.scheme, FALSE, origin.kind, origin.name, origin.a, origin.b, "/robots.txt")

\* robotsParser(robotsUrl, ''): no rule.
EmptyRules == [disallow |-> {}, crawlDelay |-> 0]

\* robots.isAllowed(url, userAgent) ?? true
isAllowed(rules, u) == u.path \notin rules.disallow

\* The RobotsCheckResult built from a rule set; no crawl delay and no reason
\* are undefined in the code, 0 and "" here.
resultOf(rules, u) ==
    [allowed |-> isAllowed(rules, u),
     crawlDelay |-> rules.crawlDelay,
     reason |-> IF isAllowed(rules, u) THEN "" ELSE "Disallowed by robots.txt"]

\* robotsCache.get(origin): the entries of the origin (none or one).
cacheGet(cache, origin) == {e \in cache : e.origin = origin}

\* robotsCache.set that keeps only entries with rules.
cacheSetRules(cache, entry) ==
    IF entry.robots = [disallow |-> {}, crawlDelay |-> 0] THEN cache
    ELSE {e \in cache : e.origin # entry.origin} \cup {entry}

\* robotsCache.set(origin, entry)
cacheSet(cache, entry) == {e \in cache : e.origin # entry.origin} \cup {entry}

\* cacheHit that still holds when the ttl has just run out.
cacheHitLate(cache, origin, t) ==
    \E e \in cacheGet(cache, origin) : t - e.fetchedAt <= e.ttl

\* cached && (now - cached.fetchedAt) < cached.ttl
cacheHit(cache, origin, t) ==
    \E e \in cacheGet(cache, origin) : t - e.fetchedAt < e.ttl

\* checkRobotsTxt(url) up to its await: the answer from the cache, or the
\* request for robots.txt.
RobotsStart(u) ==
    /\ robot.pc = "idle"
    /\ LET origin == getOrigin(u)
       IN  IF cacheHit(robotsCache, origin, now)
           THEN /\ \E e \in cacheGet(robotsCache, origin) :
                      robot' = [pc |-> "returned", url |-> u, now |-> now, origin |-> origin,
                                result |-> resultOf(e.robots, u)]
                /\ reply' = NoReply
                /\ wire' = {}
           ELSE /\ robot' = [pc |-> "fetching", url |-> u, now |-> now, origin |-> origin,
                             result |-> NoResult]
                /\ reply' = NoReply
                /\ wire' = {robotsUrlOf(origin)}
    /\ UNCHANGED <<now, storeVars, robotsChecked, robotsCache, pureVars, fetcher, sweeps, edits, throws,
                   sweepVars>>

\* RobotsFetched that reads the body whatever the status.
RobotsFetchedAnyStatus(outcome, body) ==
    /\ robot.pc = "fetching"
    /\ LET robots == IF outcome \in {"ok", "status"} THEN body ELSE EmptyRules
       IN  /\ robotsCache' = cacheSet(robotsCache,
                    [origin |-> robot.origin, robots |-> robots, fetchedAt |-> robot.now,
                     ttl |-> 60 * 60 * 1000])
           /\ robot' = [robot EXCEPT !.pc = "returned", !.result = resultOf(robots, robot.url)]
    /\ reply' = NoReply
    /\ wire' = {}
    /\ UNCHANGED <<now, storeVars, robotsChecked, pureVars, fetcher, sweeps, edits, throws, sweepVars>>

\* fetchRobotsTxt answers: the rules of the body when res.ok, no rule for
\* another status or a throw (network error, timeout); then robotsCache.set
\* with the now taken at the start of the check.
RobotsFetched(outcome, body) ==
    /\ robot.pc = "fetching"
    /\ LET robots == IF outcome = "ok" THEN body ELSE EmptyRules
       IN  /\ robotsCache' = cacheSet(robotsCache,
                    [origin |-> robot.origin, robots |-> robots, fetchedAt |-> robot.now,
                     ttl |-> 60 * 60 * 1000])
           /\ robot' = [robot EXCEPT !.pc = "returned", !.result = resultOf(robots, robot.url)]
    /\ reply' = NoReply
    /\ wire' = {}
    /\ UNCHANGED <<now, storeVars, robotsChecked, pureVars, fetcher, sweeps, edits, throws, sweepVars>>

\* The result goes back to the caller.
RobotsReturn ==
    /\ robot.pc = "returned"
    /\ robotsChecked' = IF robot.result.allowed THEN robotsChecked \cup {robot.url}
                        ELSE robotsChecked \ {robot.url}
    /\ robot' = RobotIdle
    /\ reply' = NoReply
    /\ wire' = {}
    /\ UNCHANGED <<now, storeVars, robotsCache, pureVars, fetcher, sweeps, edits, throws, sweepVars>>

\* ------------------------------------------------------ POST /api/watched
\* AddSource with an addWatchedSource that does not look for the URL.
AddSourceUnchecked(url, outcome, link, interval) ==
    /\ Len(sources) < Cardinality(SourceIds)
    /\ LET requested == IF outcome \in {"link", "linkFail"} THEN {url, link} ELSE {url}
           feedUrl == IF outcome = "link" THEN link ELSE url
           duplicate == FALSE
       IN  /\ wire' = requested
           /\ IF outcome = "fail" \/ duplicate
              THEN /\ UNCHANGED sources
                   /\ reply' = Reply(400, IF outcome = "fail" THEN "Failed to fetch URL"
                                          ELSE "This URL is already being watched")
              ELSE /\ sources' = Append(sources,
                          [id |-> freshSourceId(sources), url |-> feedUrl,
                           enabled |-> TRUE, lastFetchedAt |-> NullTime,
                           fetchIntervalHours |-> interval])
                   /\ reply' = Reply(200, "")
    /\ UNCHANGED <<now, articles, robotVars, pureVars, fetcher, sweeps, edits, throws, sweepVars>>

\* detectFeedType(url) then addWatchedSource: the requests of the detector
\* (the URL, and the feed link the page at the URL names) are plain fetch()
\* calls.
AddSource(url, outcome, link, interval) ==
    /\ Len(sources) < Cardinality(SourceIds)
    /\ LET requested == IF outcome \in {"link", "linkFail"} THEN {url, link} ELSE {url}
           feedUrl == IF outcome = "link" THEN link ELSE url
           duplicate == \E i \in 1..Len(sources) : sources[i].url = feedUrl
       IN  /\ wire' = requested
           /\ IF outcome = "fail" \/ duplicate
              THEN /\ UNCHANGED sources
                   /\ reply' = Reply(400, IF outcome = "fail" THEN "Failed to fetch URL"
                                          ELSE "This URL is already being watched")
              ELSE /\ sources' = Append(sources,
                          [id |-> freshSourceId(sources), url |-> feedUrl,
                           enabled |-> TRUE, lastFetchedAt |-> NullTime,
                           fetchIntervalHours |-> interval])
                   /\ reply' = Reply(200, "")
    /\ UNCHANGED <<now, articles, robotVars, pureVars, fetcher, sweeps, edits, throws, sweepVars>>

\* PATCH /api/watched: updateWatchedSource(id, {enabled}).
SetEnabled(id, b) ==
    /\ findIndex(sources, id) # 0
    /\ sources[findIndex(sources, id)].enabled # b
    /\ sources' = [sources EXCEPT ![findIndex(sources, id)].enabled = b]
    /\ edits < MaxEdits
    /\ edits' = edits + 1
    /\ reply' = Reply(200, "")
    /\ wire' = {}
    /\ UNCHANGED <<now, articles, robotVars, pureVars, fetcher, sweeps, throws, sweepVars>>

\* PATCH /api/watched: updateWatchedSource(id, {fetchIntervalHours}).
SetInterval(id, h) ==
    /\ findIndex(sources, id) # 0
    /\ sources[findIndex(sources, id)].fetchIntervalHours # h
    /\ sources' = [sources EXCEPT ![findIndex(sources, id)].fetchIntervalHours = h]
    /\ edits < MaxEdits
    /\ edits' = edits + 1
    /\ reply' = Reply(200, "")
    /\ wire' = {}
    /\ UNCHANGED <<now, articles, robotVars, pureVars, fetcher, sweeps, throws, sweepVars>>

\* deleteArticlesBySource: every article listed for the source is unlinked.
deleteArticlesBySource(arts, sourceId) == {a \in arts : a.sourceId # sourceId}

\* deleteWatchedSource: the sources without the id.
deleteWatchedSource(srcs, id) == SelectSeq(srcs, LAMBDA s : s.id # id)

\* DELETE /api/watched: deleteArticlesBySource, then deleteWatchedSource;
\* 404 when no source has the id.
DeleteSource(id) ==
    /\ articles' = deleteArticlesBySource(articles, id)
    /\ sources' = deleteWatchedSource(sources, id)
    /\ reply' = IF findIndex(sources, id) = 0 THEN Reply(404, "Source not found")
                ELSE Reply(200, "")
    /\ edits < MaxEdits
    /\ edits' = edits + 1
    /\ wire' = {}
    /\ UNCHANGED <<now, robotVars, pureVars, fetcher, sweeps, throws, sweepVars>>

\* POST /api/monitor/articles: fetchAndExtractPage(article.url), then
\* markArticleSaved; an error of the fetch leaves the article as it was.
MarkSaved(a, lookups, ok) ==
    /\ a \in articles
    /\ ~a.savedToKnowledge
    /\ LET checked == assertSafeHttpUrl(a.url, lookups)
       IN  /\ reply' = IF checked = "ok" /\ ok THEN Reply(200, "")
                       ELSE Reply(500, IF checked = "ok" THEN "Fetch failed" ELSE checked)
           /\ wire' = IF checked = "ok" THEN {a.url} ELSE {}
           /\ articles' = IF checked = "ok" /\ ok THEN markSaved(articles, a) ELSE articles
    /\ edits < MaxEdits
    /\ edits' = edits + 1
    /\ UNCHANGED <<now, sources, robotVars, pureVars, fetcher, sweeps, throws, sweepVars>>

\* ------------------------------------------------------------ the sweeps
\* for (const source of ...): enter fetchSourceArticles for the next source,
\* or build the response when none is left.
ProcessNext(p, q, res) ==
    /\ results' = [results EXCEPT ![p] = res]
    /\ IF q = <<>>
       THEN /\ pc' = [pc EXCEPT ![p] = "respond"]
            /\ status' = [status EXCEPT ![p] = 200]
            /\ queue' = [queue EXCEPT ![p] = <<>>]
            /\ cur' = [cur EXCEPT ![p] = NoSource]
       ELSE /\ pc' = [pc EXCEPT ![p] = "parse"]
            /\ status' = status
            /\ queue' = [queue EXCEPT ![p] = Tail(q)]
            /\ cur' = [cur EXCEPT ![p] = [id |-> Head(q).id, url |-> Head(q).url]]
    /\ newArticles' = [newArticles EXCEPT ![p] = 0]
    /\ errors' = [errors EXCEPT ![p] = <<>>]
    /\ created' = [created EXCEPT ![p] = 0]
    /\ item' = [item EXCEPT ![p] = NoItem]
    /\ left' = [left EXCEPT ![p] = 0]
    /\ saved' = [saved EXCEPT ![p] = NoArticle]

\* FinishSource that gives the sweep up after a source with errors.
FinishSourceAbort(p, n, errs) ==
    ProcessNext(p, IF errs = <<>> THEN queue[p] ELSE <<>>,
        Append(results[p], [sourceId |-> cur[p].id, newArticles |-> n, errors |-> errs]))

\* return { newArticles, errors } of fetchSourceArticles and results.push.
FinishSource(p, n, errs) ==
    ProcessNext(p, queue[p],
        Append(results[p], [sourceId |-> cur[p].id, newArticles |-> n, errors |-> errs]))

\* The handler has its list of sources and enters the loop.
LaunchSweep(p, m, list) ==
    /\ mode' = [mode EXCEPT ![p] = m]
    /\ selected' = [selected EXCEPT ![p] = IdsOf(list)]
    /\ ProcessNext(p, list, <<>>)
    /\ reply' = NoReply
    /\ wire' = {}
    /\ UNCHANGED <<now, storeVars, robotVars, pureVars, fetcher, edits, throws, snapshot, stampAt>>

BeginSweep(p, m, list) ==
    /\ sweeps < MaxSweeps
    /\ sweeps' = sweeps + 1
    /\ LaunchSweep(p, m, list)

\* POST /api/cron/fetch: the sources getSourcesDueForFetch returns.
StartCron(p) ==
    /\ p = "cron"
    /\ pc[p] = "idle"
    /\ BeginSweep(p, "cron", getDueForFetch(sources, now))

\* POST /api/monitor/fetch with a sourceId: that source, or 404.
StartSingle(p, id) ==
    /\ p = "manual"
    /\ pc[p] = "idle"
    /\ IF findIndex(sources, id) = 0
       THEN /\ pc' = [pc EXCEPT ![p] = "respond"]
            /\ status' = [status EXCEPT ![p] = 404]
            /\ mode' = [mode EXCEPT ![p] = "single"]
            /\ reply' = NoReply
            /\ wire' = {}
            /\ UNCHANGED <<now, storeVars, robotVars, pureVars, fetcher, sweeps, edits, throws, selected,
                           queue, cur, item, left, saved, created, newArticles,
                           errors, results, snapshot, stampAt>>
       ELSE BeginSweep(p, "single", <<sources[findIndex(sources, id)]>>)

\* POST /api/monitor/fetch without a sourceId: all enabled sources.
StartAll(p) ==
    /\ p = "manual"
    /\ pc[p] = "idle"
    /\ BeginSweep(p, "all", enabledSources(sources))

\* NextResponse.json(...): the handler returns and its locals are gone.
Respond(p) ==
    /\ pc[p] = "respond"
    /\ pc' = [pc EXCEPT ![p] = "idle"]
    /\ mode' = [mode EXCEPT ![p] = "none"]
    /\ selected' = [selected EXCEPT ![p] = <<>>]
    /\ results' = [results EXCEPT ![p] = <<>>]
    /\ status' = [status EXCEPT ![p] = 0]
    /\ reply' = NoReply
    /\ wire' = {}
    /\ UNCHANGED <<now, storeVars, robotVars, pureVars, fetcher, sweeps, edits, throws, queue, cur, item,
                   left, saved, created, newArticles, errors, snapshot, stampAt>>

\* A fetch or a write of this step either succeeds or throws.
Outcome(ok) ==
    IF ok THEN throws' = throws
    ELSE throws < MaxThrows /\ throws' = throws + 1

\* The next article of the for loop, or, after the last one,
\* updateWatchedSource(source.id, {lastFetchedAt: new Date().toISOString()}).
Advance(p, n) ==
    IF n = 0
    THEN /\ pc' = [pc EXCEPT ![p] = "stampRead"]
         /\ stampAt' = [stampAt EXCEPT ![p] = now]
         /\ item' = [item EXCEPT ![p] = NoItem]
         /\ left' = [left EXCEPT ![p] = 0]
    ELSE /\ pc' = [pc EXCEPT ![p] = "addCheck"]
         /\ stampAt' = stampAt
         /\ \E c \in Candidates : item' = [item EXCEPT ![p] = c]
         /\ left' = [left EXCEPT ![p] = n - 1]

\* parseRssFeed(source.url) / parseHtmlNewsPage(source.url): a plain fetch of
\* the source URL, then n parsed articles; a throw goes to the outer catch,
\* which skips updateWatchedSource.
ParseSource(p, ok, n) ==
    /\ pc[p] = "parse"
    /\ reply' = NoReply
    /\ wire' = {cur[p].url}
    /\ IF ok
       THEN /\ Advance(p, n)
            /\ UNCHANGED <<queue, cur, saved, created, newArticles,
                           errors, results, status>>
       ELSE /\ n = 0
            /\ FinishSource(p, newArticles[p], Append(errors[p], "fetch"))
            /\ stampAt' = stampAt
    /\ UNCHANGED <<now, storeVars, robotVars, pureVars, fetcher, sweeps, edits, mode, selected, snapshot>>

Parse(p, ok, n) == Outcome(ok) /\ ParseSource(p, ok, n)

\* addArticle up to its write: getArticleByUrl, then the new record.
AddCheck(p) ==
    /\ pc[p] = "addCheck"
    /\ LET args == item[p]
           found == getByUrl(articles, args.url)
       IN  IF found # {}
           THEN /\ \E existing \in found : saved' = [saved EXCEPT ![p] = existing]
                /\ pc' = [pc EXCEPT ![p] = "count"]
           ELSE /\ saved' = [saved EXCEPT ![p] =
                      [id |-> freshArticleId(articles \cup {saved[q] : q \in Procs}),
                       sourceId |-> cur[p].id, url |-> args.url,
                       title |-> args.title, fetchedAt |-> now,
                       savedToKnowledge |-> FALSE]]
                /\ pc' = [pc EXCEPT ![p] = "addWrite"]
    /\ reply' = NoReply
    /\ wire' = {}
    /\ UNCHANGED <<now, sources, articles, robotVars, pureVars, fetcher, sweeps, edits, throws, mode, selected, queue,
                   cur, item, left, created, newArticles, errors, results,
                   status, snapshot, stampAt>>

\* addArticle's writeFile: the record is stored, or the write throws and the
\* inner catch records the article as failed.
AddWrite(p, ok) ==
    /\ pc[p] = "addWrite"
    /\ IF ok
       THEN /\ articles' = articles \cup {saved[p]}
            /\ created' = [created EXCEPT ![p] = @ + 1]
            /\ pc' = [pc EXCEPT ![p] = "count"]
            /\ UNCHANGED <<item, left, errors, stampAt>>
       ELSE /\ errors' = [errors EXCEPT ![p] = Append(@, "article")]
            /\ Advance(p, left[p])
            /\ UNCHANGED <<articles, created>>
    /\ Outcome(ok)
    /\ reply' = NoReply
    /\ wire' = {}
    /\ UNCHANGED <<now, sources, robotVars, pureVars, fetcher, sweeps, edits, mode, selected,
                   queue, cur, saved, newArticles, results, status, snapshot>>

\* const isNew = new Date(saved.fetchedAt).getTime() > Date.now() - 5000
isNew(rec, t) == rec.fetchedAt > t - NewWindowMs

CountNew(p) ==
    /\ pc[p] = "count"
    /\ newArticles' = [newArticles EXCEPT ![p] = IF isNew(saved[p], now) THEN @ + 1 ELSE @]
    /\ Advance(p, left[p])
    /\ reply' = NoReply
    /\ wire' = {}
    /\ UNCHANGED <<now, storeVars, robotVars, pureVars, fetcher, sweeps, edits, throws, mode, selected, queue, cur,
                   saved, created, errors, results, status, snapshot>>

\* updateWatchedSource: readWatchedSources.
StampRead(p) ==
    /\ pc[p] = "stampRead"
    /\ snapshot' = [snapshot EXCEPT ![p] = sources]
    /\ pc' = [pc EXCEPT ![p] = "stampWrite"]
    /\ reply' = NoReply
    /\ wire' = {}
    /\ UNCHANGED <<now, storeVars, robotVars, pureVars, fetcher, sweeps, edits, throws, mode, selected, queue, cur,
                   item, left, saved, created, newArticles, errors, results,
                   status, stampAt>>

\* updateWatchedSource: findIndex and writeWatchedSources of the sources read,
\* with the stamp; a throw of the write goes to the outer catch.
updateWatchedSource(srcs, id, t) ==
    LET index == findIndex(srcs, id)
    IN  IF index = 0 THEN srcs ELSE [srcs EXCEPT ![index].lastFetchedAt = t]

StampSource(p, ok) ==
    /\ pc[p] = "stampWrite"
    /\ IF ok
       THEN /\ sources' = IF findIndex(snapshot[p], cur[p].id) = 0 THEN sources
                           ELSE updateWatchedSource(snapshot[p], cur[p].id, stampAt[p])
            /\ FinishSource(p, newArticles[p], errors[p])
       ELSE /\ sources' = sources
            /\ FinishSource(p, newArticles[p], Append(errors[p], "fetch"))
    /\ snapshot' = [snapshot EXCEPT ![p] = <<>>]
    /\ stampAt' = [stampAt EXCEPT ![p] = 0]
    /\ reply' = NoReply
    /\ wire' = {}
    /\ UNCHANGED <<now, articles, robotVars, pureVars, fetcher, sweeps, edits, mode, selected>>

StampWrite(p, ok) == Outcome(ok) /\ StampSource(p, ok)

\* ------------------------------------------------------------ tagArticle
\* A string of the profile or of the article: its letters in lower case, whether
\* it has capitals, whether it has white space around it.
Term(w) == [word |-> w, caps |-> FALSE, pad |-> FALSE]
toLowerCase(t) == [t EXCEPT !.caps = FALSE]
trim(t) == [t EXCEPT !.pad = FALSE]
lengthOf(t) == Len(t.word) + (IF t.pad THEN 1 ELSE 0)

\* objectiveKeywords[objective]; no entry for an objective that is not listed.
objectiveKeywords(objective) ==
    CASE objective = "education" ->
            <<Term("learn"), Term("science"), Term("research"), Term("study"), Term("discovery")>>
      [] objective = "awareness" ->
            <<Term("campaign"), Term("awareness"), Term("impact"), Term("threat"), Term("crisis")>>
      [] objective = "donations" ->
            <<Term("donate"), Term("support"), Term("fund"), Term("contribute"), Term("sponsor")>>
      [] objective = "news" ->
            <<Term("news"), Term("update"), Term("announcement"), Term("milestone"),
              Term("achievement")>>
      [] objective = "species-info" ->
            <<Term("species"), Term("wildlife"), Term("animal"), Term("population"),
              Term("habitat")>>
      [] objective = "habitat-info" ->
            <<Term("ecosystem"), Term("habitat"), Term("environment"), Term("restoration"),
              Term("conservation")>>
      [] objective = "advocacy" ->
            <<Term("policy"), Term("legislation"), Term("advocate"), Term("protect"), Term("law")>>
      [] objective = "volunteering" ->
            <<Term("volunteer"), Term("join"), Term("help"), Term("community"), Term("event")>>
      [] OTHER -> <<>>

RECURSIVE extraKeywords(_)
extraKeywords(objectives) ==
    IF objectives = <<>> THEN <<>>
    ELSE objectiveKeywords(Head(objectives)) \o extraKeywords(Tail(objectives))

\* [...new Set(keywords.map(k => k.toLowerCase().trim()))]: the first
\* occurrence of each string, in the order of the array.
RECURSIVE uniqueOf(_, _)
uniqueOf(keywords, seen) ==
    IF keywords = <<>> THEN <<>>
    ELSE LET k == trim(toLowerCase(Head(keywords)))
         IN  IF k \in seen THEN uniqueOf(Tail(keywords), seen)
             ELSE <<k>> \o uniqueOf(Tail(keywords), seen \cup {k})

atLeastTwo(k) == lengthOf(k) >= 2

\* new RegExp(`\\b${keyword}\\b`, "i").test(text): the text is the set of the
\* words and phrases that stand between word boundaries in title + " " + excerpt.
testRegex(keyword, text) == keyword.word \in {w.word : w \in text}

matches(text, k) == testRegex(k, text)

RECURSIVE selectMatched(_, _)
selectMatched(keywords, text) ==
    IF keywords = <<>> THEN <<>>
    ELSE IF matches(text, Head(keywords))
         THEN <<Head(keywords)>> \o selectMatched(Tail(keywords), text)
         ELSE selectMatched(Tail(keywords), text)

\* Math.min(100, score) left out.
minHundredNone(score) == score

\* Math.min(100, score)
minHundred(score) == IF score > 100 THEN 100 ELSE score

\* for (const match of matched) score += focusAreasLower.includes(match) ? 25 : 15
RECURSIVE sumScore(_, _)
sumScore(matched, focusAreasLower) ==
    IF matched = <<>> THEN 0
    ELSE (IF Head(matched) \in focusAreasLower THEN 25 ELSE 15)
         + sumScore(Tail(matched), focusAreasLower)

tagArticle(article, orgProfile) ==
    LET text == {toLowerCase(w) : w \in article.title \cup article.excerpt}
        keywords == orgProfile.focusAreas \o orgProfile.preferredTerms
                    \o extraKeywords(orgProfile.objectives)
        uniqueKeywords == SelectSeq(uniqueOf(keywords, {}), atLeastTwo)
        matched == selectMatched(uniqueKeywords, text)
        focusAreasLower == {toLowerCase(orgProfile.focusAreas[i]) :
                               i \in 1..Len(orgProfile.focusAreas)}
    IN  [matchedKeywords |-> matched,
         relevanceScore |-> minHundred(sumScore(matched, focusAreasLower))]

\* tagArticle is called with an article and a profile.
TagCall(article, orgProfile) ==
    /\ tag.pc = "idle"
    /\ tag' = [pc |-> "called", article |-> article, orgProfile |-> orgProfile, result |-> NoTag]
    /\ reply' = NoReply
    /\ wire' = {}
    /\ UNCHANGED <<now, storeVars, robotVars, page, feed, detect, storage, articleStore, fetcher, sweeps, edits, throws, sweepVars>>

\* tagArticle returns.
TagReturn ==
    /\ tag.pc = "called"
    /\ tag' = [tag EXCEPT !.pc = "done", !.result = tagArticle(tag.article, tag.orgProfile)]
    /\ reply' = NoReply
    /\ wire' = {}
    /\ UNCHANGED <<now, storeVars, robotVars, page, feed, detect, storage, articleStore, fetcher, sweeps, edits, throws, sweepVars>>

\* ----------------------------------------------------- parseHtmlNewsPage
\* The href of the first a[href] of a container: none, a path, or a whole URL.
NoHref == [kind |-> "none", path |-> "", url |-> UrlNone]
RelHref(path) == [kind |-> "rel", path |-> path, url |-> UrlNone]
AbsHref(u) == [kind |-> "abs", path |-> "", url |-> u]

\* new URL(href, url).toString()
resolveUrl(href, base) ==
    IF href.kind = "abs" THEN href.url ELSE [base EXCEPT !.path = href.path]

\* /\.(jpg|jpeg|png|gif|pdf|mp4|mp3)$/i or /\/(tag|category|author|page)\//
isNonArticle(u) == u.path \in {"/tag/x/", "/pic.jpg"}

\* The skip without seenUrls.has(articleUrl).
isSeenNever(seenUrls, articleUrl, url) == articleUrl = url

\* seenUrls.has(articleUrl) || articleUrl === url
isSeen(seenUrls, articleUrl, url) == articleUrl \in seenUrls \/ articleUrl = url

\* seenUrls.add(articleUrl) moved behind the title test.
addSeenTitled(seenUrls, articleUrl, title) ==
    IF Len(title) < 10 THEN seenUrls ELSE seenUrls \cup {articleUrl}

\* seenUrls.add(articleUrl), before the title of the container is read.
addSeen(seenUrls, articleUrl, title) == seenUrls \cup {articleUrl}

\* for (const container of containers): the articles pushed and the URLs seen.
RECURSIVE scanContainers(_, _, _, _)
scanContainers(containers, url, seenUrls, found) ==
    IF containers = <<>> THEN [articles |-> found, seenUrls |-> seenUrls]
    ELSE LET container == Head(containers)
             rest == Tail(containers)
             articleUrl == resolveUrl(container.href, url)
         IN  IF container.href.kind = "none"
             THEN scanContainers(rest, url, seenUrls, found)
             ELSE IF isSeen(seenUrls, articleUrl, url)
             THEN scanContainers(rest, url, seenUrls, found)
             ELSE IF isNonArticle(articleUrl)
             THEN scanContainers(rest, url, seenUrls, found)
             ELSE LET seenNow == addSeen(seenUrls, articleUrl, container.title)
                  IN  IF Len(container.title) < 10
                      THEN scanContainers(rest, url, seenNow, found)
                      ELSE scanContainers(rest, url, seenNow,
                                          Append(found, [title |-> container.title,
                                                         url |-> articleUrl]))

\* doc.querySelectorAll(selector), in document order.
querySelectorAll(containers, selector) ==
    LET hit(c) == selector \in c.selectors
    IN  SelectSeq(containers, hit)

\* The loop over the selectors without its break.
foundArticlesNever(found) == FALSE

\* if (articles.length > 0) break
foundArticles(found) == Len(found) > 0

\* for (const selector of containerSelectors): articles and seenUrls are
\* shared by the selectors; the loop stops behind the first selector that
\* found articles.
RECURSIVE scanSelectors(_, _, _, _, _)
scanSelectors(selectors, containers, url, seenUrls, found) ==
    IF selectors = <<>> THEN found
    ELSE LET r == scanContainers(querySelectorAll(containers, Head(selectors)),
                                 url, seenUrls, found)
         IN  IF foundArticles(r.articles) THEN r.articles
             ELSE scanSelectors(Tail(selectors), containers, url, r.seenUrls, r.articles)

\* articles.slice(0, 20)
sliceTwenty(found) == SubSeq(found, 1, IF Len(found) < 20 THEN Len(found) ELSE 20)

ContainerSelectors == <<1, 2>>

parseHtmlNewsPage(url, containers) ==
    sliceTwenty(scanSelectors(ContainerSelectors, containers, url, {}, <<>>))

\* parseHtmlNewsPage(url) has fetched the page: its containers.
PageFetched(url, containers) ==
    /\ page.pc = "idle"
    /\ page' = [pc |-> "fetched", url |-> url, containers |-> containers, result |-> <<>>]
    /\ reply' = NoReply
    /\ wire' = {url}
    /\ UNCHANGED <<now, storeVars, robotVars, tag, feed, detect, storage, articleStore, fetcher, sweeps, edits, throws, sweepVars>>

\* parseHtmlNewsPage returns the articles.
PageReturn ==
    /\ page.pc = "fetched"
    /\ page' = [page EXCEPT !.pc = "done",
                            !.result = parseHtmlNewsPage(page.url, page.containers)]
    /\ reply' = NoReply
    /\ wire' = {}
    /\ UNCHANGED <<now, storeVars, robotVars, tag, feed, detect, storage, articleStore, fetcher, sweeps, edits, throws, sweepVars>>

\* ----------------------------------------------------------- parseRssFeed
\* A field of an item that the feed does not have.
Missing == [word |-> "", caps |-> FALSE, pad |-> FALSE, missing |-> TRUE]
Text(t) == [word |-> t.word, caps |-> t.caps, pad |-> t.pad, missing |-> FALSE]

\* !value of a string or undefined: undefined and "" are falsy.
isFalsy(v) == v.missing \/ (v.word = "" /\ ~v.pad)

\* if (!item.title || !item.link) continue
skipsItem(entry) == isFalsy(entry.title) \/ isFalsy(entry.link)

\* for (const item of feed.items ?? []): title and link trimmed.
RECURSIVE collectItems(_)
collectItems(items) ==
    IF items = <<>> THEN <<>>
    ELSE LET entry == Head(items)
         IN  IF skipsItem(entry) THEN collectItems(Tail(items))
             ELSE <<[title |-> trim(entry.title), url |-> trim(entry.link)]>>
                  \o collectItems(Tail(items))

\* parser.parseURL(url) has returned the feed.
FeedParsed(items) ==
    /\ feed.pc = "idle"
    /\ feed' = [pc |-> "parsed", items |-> items, result |-> <<>>]
    /\ reply' = NoReply
    /\ wire' = {UrlPublic}
    /\ UNCHANGED <<now, storeVars, robotVars, tag, page, detect, storage, articleStore, fetcher, sweeps, edits, throws, sweepVars>>

\* parseRssFeed returns the articles.
FeedReturn ==
    /\ feed.pc = "parsed"
    /\ feed' = [feed EXCEPT !.pc = "done", !.result = collectItems(feed.items)]
    /\ reply' = NoReply
    /\ wire' = {}
    /\ UNCHANGED <<now, storeVars, robotVars, tag, page, detect, storage, articleStore, fetcher, sweeps, edits, throws, sweepVars>>

\* --------------------------------------------------------- detectFeedType
\* extractHostname(url): the hostname without a leading "www.".
extractHostname(u) ==
    IF u.kind # "name" THEN <<"address">>
    ELSE IF u.name # <<>> /\ Head(u.name) = "www" THEN Tail(u.name)
    ELSE u.name

\* title || extractHostname(url)
nameOf(title, u) ==
    IF title # "" THEN [title |-> title, host |-> <<>>]
    ELSE [title |-> "", host |-> extractHostname(u)]

\* detectFeedType(url): fetch(url) is called.
DetectStart(u) ==
    /\ detect.pc = "idle"
    /\ detect' = [DetectIdle EXCEPT !.pc = "fetching", !.url = u]
    /\ reply' = NoReply
    /\ wire' = {u}
    /\ UNCHANGED <<now, storeVars, robotVars, tag, page, feed, storage, articleStore, fetcher, sweeps, edits, throws,
                   sweepVars>>

\* The answer for the URL: fetch throws (network error, abort after 15 s),
\* the status is not ok, the body is a feed, or it is a page with or without
\* a feed link (findRssLink).
DetectFetched(outcome, code, title, rssUrl) ==
    /\ detect.pc = "fetching"
    /\ outcome # "status" => code = 200
    /\ outcome = "status" => code # 200
    /\ outcome \notin {"feed", "page"} => title = ""
    /\ outcome # "page" => rssUrl = UrlNone
    /\ detect' =
        CASE outcome \in {"error", "timeout"} ->
                [detect EXCEPT !.pc = "threw", !.error = outcome]
          [] outcome = "status" ->
                [detect EXCEPT !.pc = "threw", !.error = "Failed to fetch URL", !.result.type = ""]
          [] outcome = "feed" ->
                [detect EXCEPT !.pc = "returned",
                    !.result = [type |-> "RSS", feedUrl |-> detect.url,
                                name |-> nameOf(title, detect.url)]]
          [] outcome = "page" /\ rssUrl = UrlNone ->
                [detect EXCEPT !.pc = "returned", !.pageTitle = title,
                    !.result = [type |-> "HTML", feedUrl |-> detect.url,
                                name |-> nameOf(title, detect.url)]]
          [] outcome = "page" /\ rssUrl # UrlNone ->
                [detect EXCEPT !.pc = "verifying", !.pageTitle = title, !.rssUrl = rssUrl]
    /\ reply' = NoReply
    /\ wire' = IF outcome = "page" /\ rssUrl # UrlNone THEN {rssUrl} ELSE {}
    /\ UNCHANGED <<now, storeVars, robotVars, tag, page, feed, storage, articleStore, fetcher, sweeps, edits, throws,
                   sweepVars>>

\* DetectVerified without the try/catch around the second fetch.
DetectVerifiedUncaught(outcome, title) ==
    /\ detect.pc = "verifying"
    /\ outcome # "feed" => title = ""
    /\ detect' =
        IF outcome = "feed"
        THEN [detect EXCEPT !.pc = "returned",
                 !.result = [type |-> "RSS", feedUrl |-> detect.rssUrl,
                             name |-> IF title # "" THEN nameOf(title, detect.url)
                                      ELSE nameOf(detect.pageTitle, detect.url)]]
        ELSE IF outcome \in {"error", "timeout"}
        THEN [detect EXCEPT !.pc = "threw", !.error = outcome]
        ELSE [detect EXCEPT !.pc = "returned",
                 !.result = [type |-> "HTML", feedUrl |-> detect.url,
                             name |-> nameOf(detect.pageTitle, detect.url)]]
    /\ reply' = NoReply
    /\ wire' = {}
    /\ UNCHANGED <<now, storeVars, robotVars, tag, page, feed, storage, articleStore, fetcher, sweeps, edits, throws,
                   sweepVars>>

\* The answer for the feed link: a feed (status ok, a body with <rss, <feed
\* or <channel>), or fetch throws, the status is not ok, the body has no such
\* marker: these three fall through to the HTML classification.
DetectVerified(outcome, title) ==
    /\ detect.pc = "verifying"
    /\ outcome # "feed" => title = ""
    /\ detect' =
        IF outcome = "feed"
        THEN [detect EXCEPT !.pc = "returned",
                 !.result = [type |-> "RSS", feedUrl |-> detect.rssUrl,
                             name |-> IF title # "" THEN nameOf(title, detect.url)
                                      ELSE nameOf(detect.pageTitle, detect.url)]]
        ELSE [detect EXCEPT !.pc = "returned",
                 !.result = [type |-> "HTML", feedUrl |-> detect.url,
                             name |-> nameOf(detect.pageTitle, detect.url)]]
    /\ reply' = NoReply
    /\ wire' = {}
    /\ UNCHANGED <<now, storeVars, robotVars, tag, page, feed, storage, articleStore, fetcher, sweeps, edits, throws,
                   sweepVars>>

\* The DetectedFeed, or the error, reaches the caller.
DetectReturn ==
    /\ detect.pc \in {"returned", "threw"}
    /\ detect' = DetectIdle
    /\ reply' = NoReply
    /\ wire' = {}
    /\ UNCHANGED <<now, storeVars, robotVars, tag, page, feed, storage, articleStore, fetcher, sweeps, edits, throws,
                   sweepVars>>

\* --------------------------------------------------------- storage factory
\* getStorageProvider(): the cached instance, or a new one that is cached.
getStorageProvider(st) ==
    IF st.cachedProvider # 0 THEN st
    ELSE [st EXCEPT !.cachedProvider = st.instances + 1, !.instances = st.instances + 1]

\* initStorage without the test of initPromise.
initStorageAlways(st) ==
    LET made == getStorageProvider(st)
    IN  [made EXCEPT
            !.promises = Append(st.promises, [provider |-> made.cachedProvider, state |-> "pending"]),
            !.initPromise = Len(st.promises) + 1]

\* initStorage(): the promise there is, or a new one whose body takes the
\* provider and calls its init().
initStorage(st) ==
    IF st.initPromise # 0 THEN st
    ELSE LET made == getStorageProvider(st)
         IN  [made EXCEPT
                 !.promises = Append(st.promises,
                                     [provider |-> made.cachedProvider, state |-> "pending"]),
                 !.initPromise = Len(st.promises) + 1]

\* A caller calls initStorage() of the factory and awaits what it returns.
InitStorageCall(c) ==
    /\ storage.callers[c].pc = "idle"
    /\ storage.initPromise = 0 => Len(storage.promises) < MaxInits
    /\ LET after == initStorage(storage)
       IN  storage' = [after EXCEPT !.callers[c] =
                          [CallerIdle EXCEPT !.pc = "awaiting", !.via = "factory",
                                             !.promise = after.initPromise]]
    /\ reply' = NoReply
    /\ wire' = {}
    /\ UNCHANGED <<now, storeVars, robotVars, tag, page, feed, detect, articleStore, fetcher, sweeps, edits,
                   throws, sweepVars>>

\* provider.init() of a promise's body ends: the promise is settled.
InitSettles(p, outcome) ==
    /\ p \in 1..Len(storage.promises)
    /\ storage.promises[p].state = "pending"
    /\ storage' = [storage EXCEPT !.promises[p].state = outcome]
    /\ reply' = NoReply
    /\ wire' = {}
    /\ UNCHANGED <<now, storeVars, robotVars, tag, page, feed, detect, articleStore, fetcher, sweeps, edits,
                   throws, sweepVars>>

\* init.ts initStorage(): one promise for the life of the module.
LegacyInitCall(c) ==
    /\ storage.callers[c].pc = "idle"
    /\ storage' = [storage EXCEPT
                      !.legacy = IF storage.legacy = "none" THEN "pending" ELSE storage.legacy,
                      !.callers[c] = [CallerIdle EXCEPT !.pc = "awaiting", !.via = "legacy"]]
    /\ reply' = NoReply
    /\ wire' = {}
    /\ UNCHANGED <<now, storeVars, robotVars, tag, page, feed, detect, articleStore, fetcher, sweeps, edits,
                   throws, sweepVars>>

\* initStorageImpl() ends.
LegacySettles ==
    /\ storage.legacy = "pending"
    /\ storage' = [storage EXCEPT !.legacy = "resolved"]
    /\ reply' = NoReply
    /\ wire' = {}
    /\ UNCHANGED <<now, storeVars, robotVars, tag, page, feed, detect, articleStore, fetcher, sweeps, edits,
                   throws, sweepVars>>

\* The await of a caller ends once the promise it holds is settled.
settled(st, c) ==
    IF st.callers[c].via = "legacy" THEN st.legacy = "resolved"
    ELSE st.promises[st.callers[c].promise].state # "pending"

InitStorageResume(c) ==
    /\ storage.callers[c].pc = "awaiting"
    /\ settled(storage, c)
    /\ storage' = [storage EXCEPT !.callers[c].pc = "ready"]
    /\ reply' = NoReply
    /\ wire' = {}
    /\ UNCHANGED <<now, storeVars, robotVars, tag, page, feed, detect, articleStore, fetcher, sweeps, edits,
                   throws, sweepVars>>

\* The caller takes the provider (posts.ts: getStorageProvider() after the
\* await).
TakeProvider(c) ==
    /\ storage.callers[c].pc = "ready"
    /\ storage.callers[c].via = "factory"
    /\ storage.cachedProvider = 0 => storage.instances < MaxInits
    /\ LET after == getStorageProvider(storage)
       IN  storage' = [after EXCEPT !.callers[c].pc = "holding",
                                    !.callers[c].got = after.cachedProvider]
    /\ reply' = NoReply
    /\ wire' = {}
    /\ UNCHANGED <<now, storeVars, robotVars, tag, page, feed, detect, articleStore, fetcher, sweeps, edits,
                   throws, sweepVars>>

\* The caller's request ends.
CallerEnds(c) ==
    /\ \/ storage.callers[c].pc = "holding"
       \/ storage.callers[c].pc = "ready" /\ storage.callers[c].via = "legacy"
    /\ storage' = [storage EXCEPT !.callers[c] = CallerIdle]
    /\ reply' = NoReply
    /\ wire' = {}
    /\ UNCHANGED <<now, storeVars, robotVars, tag, page, feed, detect, articleStore, fetcher, sweeps, edits,
                   throws, sweepVars>>

\* closeStorage(): with a cached provider, its close() is awaited.
CloseStorageCall(c) ==
    /\ storage.callers[c].pc = "idle"
    /\ storage.cachedProvider # 0
    /\ storage' = [storage EXCEPT !.callers[c] = [CallerIdle EXCEPT !.pc = "closing"]]
    /\ reply' = NoReply
    /\ wire' = {}
    /\ UNCHANGED <<now, storeVars, robotVars, tag, page, feed, detect, articleStore, fetcher, sweeps, edits,
                   throws, sweepVars>>

\* close() ended: cachedProvider = null; initPromise = null.
CloseStorageDone(c) ==
    /\ storage.callers[c].pc = "closing"
    /\ storage' = [storage EXCEPT !.cachedProvider = 0, !.initPromise = 0,
                                  !.callers[c] = CallerIdle]
    /\ reply' = NoReply
    /\ wire' = {}
    /\ UNCHANGED <<now, storeVars, robotVars, tag, page, feed, detect, articleStore, fetcher, sweeps, edits,
                   throws, sweepVars>>

\* ------------------------------------------------- article stores: add
\* Numbers of this section are counted in hundredths (1.00 is 100).
Hundredths(n) == n * 100

\* relevance_score DECIMAL(3, 2) NOT NULL CHECK (relevance_score >= 0 AND
\* relevance_score <= 1): three digits, two of them after the point, so a
\* value of 10 or more overflows the type; the check refuses the rest above 1.
insertRelevanceScore(value) ==
    IF value >= Hundredths(10) THEN [error |-> "numeric field overflow", row |-> NoRow]
    ELSE IF value < 0 \/ value > Hundredths(1)
    THEN [error |-> "check constraint", row |-> NoRow]
    ELSE [error |-> "", row |-> value]

\* JSON.stringify(article) keeps the number as it is.
writeRelevanceScore(value) == [error |-> "", row |-> value]

\* add(args) of the provider, for a URL that is not stored.
ArticleAdd(provider, score) ==
    /\ articleStore.pc = "idle"
    /\ LET done == IF provider = "postgres" THEN insertRelevanceScore(Hundredths(score))
                                            ELSE writeRelevanceScore(Hundredths(score))
       IN  articleStore' = [ArticleStoreIdle EXCEPT !.pc = "added", !.provider = provider,
                               !.relevanceScore = Hundredths(score), !.row = done.row,
                               !.error = done.error]
    /\ reply' = NoReply
    /\ wire' = {}
    /\ UNCHANGED <<now, storeVars, robotVars, tag, page, feed, detect, storage, fetcher, sweeps,
                   edits, throws, sweepVars>>

\* getByUrl(url): null without a row, else the record of the row
\* (rowToArticle: parseFloat(row.relevance_score); the file's JSON.parse).
ArticleGetByUrl ==
    /\ articleStore.pc = "added"
    /\ articleStore' = [articleStore EXCEPT !.pc = "got", !.got = articleStore.row]
    /\ reply' = NoReply
    /\ wire' = {}
    /\ UNCHANGED <<now, storeVars, robotVars, tag, page, feed, detect, storage, fetcher, sweeps,
                   edits, throws, sweepVars>>

ArticleStoreReturn ==
    /\ articleStore.pc = "got"
    /\ articleStore' = ArticleStoreIdle
    /\ reply' = NoReply
    /\ wire' = {}
    /\ UNCHANGED <<now, storeVars, robotVars, tag, page, feed, detect, storage, fetcher, sweeps,
                   edits, throws, sweepVars>>

\* ------------------------------------------------------- specifications
\* The steps of a running sweep.
SweepSteps ==
    \/ \E p \in Procs, ok \in BOOLEAN, n \in 0..MaxItems : Parse(p, ok, n)
    \/ \E p \in Procs : AddCheck(p)
    \/ \E p \in Procs, ok \in BOOLEAN : AddWrite(p, ok)
    \/ \E p \in Procs : CountNew(p)
    \/ \E p \in Procs : StampRead(p)
    \/ \E p \in Procs, ok \in BOOLEAN : StampWrite(p, ok)
    \/ \E p \in Procs : Respond(p)

Starts(p) ==
    \/ StartCron(p)
    \/ \E id \in SourceIds : StartSingle(p, id)
    \/ StartAll(p)

\* Sweeps in sequence: a sweep starts when no other sweep is running.
StartsInSequence ==
    \E p \in Procs : (\A q \in Procs : pc[q] = "idle") /\ Starts(p)

\* The orchestration: sources are added, enabled and disabled, polling
\* intervals pass, sweeps run one after another.
Next ==
    \/ Tick(HourMs)
    \/ \E u \in InputUrls, o \in {"fail", "direct", "link", "linkFail"},
          l \in InputUrls, h \in IntervalChoices : AddSource(u, o, l, h)
    \/ \E id \in SourceIds, b \in BOOLEAN : SetEnabled(id, b)
    \/ StartsInSequence
    \/ SweepSteps

Spec == Init /\ [][Next]_vars

\* The ingestion of one source: its feed is polled again and again, seconds
\* pass, articles are saved to the knowledge base.
OneSource ==
    <<[id |-> 1, url |-> UrlPublic, enabled |-> TRUE, lastFetchedAt |-> NullTime,
       fetchIntervalHours |-> 1]>>

InitIngest ==
    /\ now = 0
    /\ sources = OneSource
    /\ articles = {}
    /\ InitIdle

NextIngest ==
    \/ Tick(NewWindowMs)
    \/ \E a \in articles, lookups \in SaveAnswers, ok \in BOOLEAN : MarkSaved(a, lookups, ok)
    \/ StartsInSequence
    \/ SweepSteps

SpecIngest == InitIngest /\ [][NextIngest]_vars

\* The ingestion of one source that has an article of an earlier sweep in the
\* store (a sweep whose updateWatchedSource failed leaves lastFetchedAt null).
UrlStored == MkUrl("https", FALSE, "name", <<"news", "example">>, 0, 0, "/a0")
StoredArticle ==
    [id |-> 1, sourceId |-> 1, url |-> UrlStored, title |-> "t1",
     fetchedAt |-> 0, savedToKnowledge |-> FALSE]

InitArticles ==
    /\ now = 0
    /\ sources = OneSource
    /\ articles = {StoredArticle}
    /\ InitIdle

SpecArticles == InitArticles /\ [][NextIngest]_vars

\* The due-for-fetch selection on its own: any two sources, at any time.
DueIntervals == {1, 24}
DueStamps == {NullTime, 0, HourMs}
DueNows == {23 * HourMs, 24 * HourMs, 24 * HourMs + MinuteMs, 25 * HourMs}
DueSources(id, url) ==
    [id : {id}, url : {url}, enabled : BOOLEAN, lastFetchedAt : DueStamps,
     fetchIntervalHours : DueIntervals]

InitDue ==
    /\ now \in DueNows
    /\ sources \in {<<s1, s2>> : s1 \in DueSources(1, UrlPublic), s2 \in DueSources(2, UrlPrivate)}
    /\ articles = {}
    /\ InitIdle

NextDue == StartCron("cron")

SpecDue == InitDue /\ [][NextDue]_vars

\* The Safe Fetcher on its own: any URL, any DNS answer.
Schemes == {"http", "https", "ftp"}
FirstOctets == {0, 9, 10, 11, 100, 126, 127, 128, 169, 172, 191, 192, 193, 223, 224, 255}
SecondOctets == {0, 15, 16, 31, 32, 63, 64, 127, 128, 168, 253, 254, 255}
LiteralIps == {MkIp(a, b) : a \in FirstOctets, b \in SecondOctets}
HostNames == {<<"localhost">>, <<"printer", "local">>, <<"local">>, <<"news", "example">>}
FetchUrls ==
    {MkUrl(s, c, "ip4", <<>>, a, b, "/") :
        s \in Schemes, c \in BOOLEAN, a \in FirstOctets, b \in SecondOctets}
    \cup {MkUrl(s, c, "name", n, 0, 0, "/") : s \in Schemes, c \in BOOLEAN, n \in HostNames}

NextFetch ==
    \/ \E u \in FetchUrls : FetchStart(u)
    \/ \E lookups \in DnsAnswers : FetchLookup(lookups)
    \/ \E ok \in BOOLEAN, peer \in AnswerIps \cup LiteralIps : FetchRequest(ok, peer)
    \/ FetchReturn

SpecFetch == Init /\ [][NextFetch]_vars

\* The Safe Fetcher and IPv6: hosts that are IPv6 literals, names that
\* resolve to IPv6 addresses.
FetchUrls6 ==
    {MkUrl("https", FALSE, "ip6", <<>>, ip.a, ip.b, "/") : ip \in AnswerIps6 \ {MkIp(93, 184)}}
    \cup {MkUrl("https", FALSE, "name", <<"news", "example">>, 0, 0, "/")}

NextFetch6 ==
    \/ \E u \in FetchUrls6 : FetchStart(u)
    \/ \E lookups \in DnsAnswers6 : FetchLookup(lookups)
    \/ \E ok \in BOOLEAN, peer \in AnswerIps6 : FetchRequest(ok, peer)
    \/ FetchReturn

SpecFetch6 == Init /\ [][NextFetch6]_vars

\* Overlapping sweeps: the scheduled and a manual sweep run at the same time
\* over one source, which the dashboard may delete meanwhile.
NextOverlap ==
    \/ \E p \in Procs : Starts(p)
    \/ SweepSteps
    \/ \E id \in SourceIds : DeleteSource(id)

SpecOverlap == InitIngest /\ [][NextOverlap]_vars

\* The watched-source store on its own: sources are added, updated and
\* deleted through the dashboard, one request after another.
SourceUrls == InputUrls \cup ArticleUrls

NextSources ==
    \/ \E u \in SourceUrls, o \in {"fail", "direct", "link", "linkFail"},
          l \in SourceUrls, h \in IntervalChoices : AddSource(u, o, l, h)
    \/ \E id \in SourceIds, b \in BOOLEAN : SetEnabled(id, b)
    \/ \E id \in SourceIds, h \in DueIntervals : SetInterval(id, h)
    \/ \E id \in SourceIds : DeleteSource(id)

SpecSources == Init /\ [][NextSources]_vars

\* The robots check on its own: URLs of two origins are checked one after
\* another while time passes.
RobotsUrls == {UrlPublic, UrlArticle, UrlPrivate}
RuleSets == {EmptyRules, [disallow |-> {"/a1"}, crawlDelay |-> 2]}
FetchOutcomes == {"ok", "status", "error"}

NextRobots ==
    \/ Tick(MinuteMs)
    \/ Tick(HourMs - MinuteMs)
    \/ Tick(HourMs)
    \/ \E u \in RobotsUrls : RobotsStart(u)
    \/ \E outcome \in FetchOutcomes, body \in RuleSets : RobotsFetched(outcome, body)
    \/ RobotsReturn

SpecRobots == Init /\ [][NextRobots]_vars

\* tagArticle on its own: any profile of a few terms, any article of a few
\* words.
SeaTurtles == Term("sea turtles")
FocusTerms ==
    {SeaTurtles, [SeaTurtles EXCEPT !.caps = TRUE], [SeaTurtles EXCEPT !.pad = TRUE],
     Term("coral")}
PreferredTerms == {SeaTurtles, Term("x"), [Term("") EXCEPT !.pad = TRUE]}
SeqsUpTo(S, n) == UNION {[1..m -> S] : m \in 0..n}
Profiles ==
    [focusAreas : SeqsUpTo(FocusTerms, MaxTerms),
     preferredTerms : SeqsUpTo(PreferredTerms, 1),
     objectives : {<<>>, <<"education">>, <<"education", "news">>, <<"other">>}]
TitleNesting ==
    {[Term("new") EXCEPT !.caps = TRUE], SeaTurtles, Term("nesting"), Term("site")}
TitleStudy ==
    {[Term("coral") EXCEPT !.caps = TRUE], Term("x"), Term("study"), Term("discovery"),
     Term("news"), Term("update")}
ExcerptResearch ==
    {SeaTurtles, Term("learn"), Term("science"), Term("research"), Term("milestone")}
TaggedArticles == [title : {{}, TitleNesting, TitleStudy}, excerpt : {{}, ExcerptResearch}]

NextTag ==
    \/ \E a \in TaggedArticles, o \in Profiles : TagCall(a, o)
    \/ TagReturn

SpecTag == Init /\ [][NextTag]_vars

\* parseHtmlNewsPage on its own: any page of a few containers.
PageHrefs ==
    {NoHref, RelHref("/a1"), AbsHref(UrlArticle), RelHref("/a2"), RelHref("/tag/x/"),
     RelHref("/feed")}
PageTitles == {"Turtles return", "Hi"}
Containers == [selectors : {{1}, {2}}, href : PageHrefs, title : PageTitles]
Pages == SeqsUpTo(Containers, MaxContainers)

NextPage ==
    \/ \E cs \in Pages : PageFetched(UrlPublic, cs)
    \/ PageReturn

SpecPage == Init /\ [][NextPage]_vars

\* parseRssFeed on its own: any feed of a few items; a title or a link is
\* missing, empty, white space only (a CDATA section, an href attribute), or
\* a text with or without white space around it.
FeedStrings ==
    {Missing, Text(Term("")), Text([Term("") EXCEPT !.pad = TRUE]),
     Text(Term("Turtles return")), Text([Term("Turtles return") EXCEPT !.pad = TRUE])}
FeedItems == [title : FeedStrings, link : FeedStrings]
Feeds == SeqsUpTo(FeedItems, MaxFeedItems)

NextFeed ==
    \/ \E items \in Feeds : FeedParsed(items)
    \/ FeedReturn

SpecFeed == Init /\ [][NextFeed]_vars

\* detectFeedType on its own: any URL, any answer for it and for the feed
\* link of its page.
DetectUrls == SourceUrls \cup {UrlStored}
DetectOutcomes == {"error", "timeout", "status", "feed", "page"}
VerifyOutcomes == {"error", "timeout", "status", "nomarker", "feed"}
StatusCodes == {200, 404, 500}
DetectTitles == {"", "Reef News"}

NextDetect ==
    \/ \E u \in DetectUrls : DetectStart(u)
    \/ \E outcome \in DetectOutcomes, code \in StatusCodes, title \in DetectTitles,
          rssUrl \in DetectUrls \cup {UrlNone} : DetectFetched(outcome, code, title, rssUrl)
    \/ \E outcome \in VerifyOutcomes, title \in DetectTitles : DetectVerified(outcome, title)
    \/ DetectReturn

SpecDetect == Init /\ [][NextDetect]_vars

\* The storage factory on its own: two callers that initialise, take the
\* provider and close, in any interleaving.
NextStorage ==
    \/ \E c \in Callers : InitStorageCall(c)
    \/ \E p \in 1..MaxInits, outcome \in {"resolved", "rejected"} : InitSettles(p, outcome)
    \/ \E c \in Callers : LegacyInitCall(c)
    \/ LegacySettles
    \/ \E c \in Callers : InitStorageResume(c)
    \/ \E c \in Callers : TakeProvider(c)
    \/ \E c \in Callers : CallerEnds(c)
    \/ \E c \in Callers : CloseStorageCall(c)
    \/ \E c \in Callers : CloseStorageDone(c)

SpecStorage == Init /\ [][NextStorage]_vars

\* add and getByUrl of either provider, for every score the tagger can give
\* (Math.min(100, ...) of a sum of non-negative integers).
Providers == {"file", "postgres"}
RelevanceScores == 0..100

NextArticleStore ==
    \/ \E provider \in Providers, score \in RelevanceScores : ArticleAdd(provider, score)
    \/ ArticleGetByUrl
    \/ ArticleStoreReturn

SpecArticleStore == Init /\ [][NextArticleStore]_vars

\* Sweeps without end over two enabled sources: the scheduler keeps calling,
\* hours keep passing, a person may fetch a source by hand at any moment.
\* The program reads times only as differences (now - lastFetch), so the
\* passing of an hour is written as every stored time moving one hour back
\* from a clock that stands at LiveNow, and a time older than MaxAgeHours
\* (older than every interval) is kept at that age.
LiveNow == MaxAgeHours * HourMs

hourBack(t) ==
    IF t = NullTime THEN NullTime
    ELSE IF t - HourMs < LiveNow - MaxAgeHours * HourMs THEN LiveNow - MaxAgeHours * HourMs
    ELSE t - HourMs

sourcesHourBack(srcs) ==
    [i \in 1..Len(srcs) |-> [srcs[i] EXCEPT !.lastFetchedAt = hourBack(srcs[i].lastFetchedAt)]]

Elapse ==
    /\ sources' = sourcesHourBack(sources)
    /\ snapshot' = [p \in Procs |-> sourcesHourBack(snapshot[p])]
    /\ stampAt' = [p \in Procs |->
                      IF pc[p] \in {"stampRead", "stampWrite"} THEN hourBack(stampAt[p])
                      ELSE stampAt[p]]
    /\ reply' = NoReply
    /\ wire' = {}
    /\ UNCHANGED <<now, articles, robotVars, pureVars, fetcher, sweeps, edits, throws, pc, mode,
                   selected, queue, cur, item, left, saved, created, newArticles, errors,
                   results, status>>

\* POST /api/cron/fetch, once more.
CronAgain ==
    /\ pc["cron"] = "idle"
    /\ sweeps' = sweeps
    /\ LaunchSweep("cron", "cron", getDueForFetch(sources, now))

\* POST /api/monitor/fetch with the id of a stored source, once more.
ManualAgain(id) ==
    /\ pc["manual"] = "idle"
    /\ findIndex(sources, id) # 0
    /\ sweeps' = sweeps
    /\ LaunchSweep("manual", "single", <<sources[findIndex(sources, id)]>>)

\* The feed of the source is fetched and parsed, or the fetch throws; it has
\* nothing new.
ParseAgain(p, ok) == throws' = throws /\ ParseSource(p, ok, 0)

StampAgain(p, ok) == throws' = throws /\ StampSource(p, ok)

TwoSources ==
    <<[id |-> 1, url |-> UrlPublic, enabled |-> TRUE, lastFetchedAt |-> NullTime,
       fetchIntervalHours |-> 1],
      [id |-> 2, url |-> UrlPrivate, enabled |-> TRUE, lastFetchedAt |-> NullTime,
       fetchIntervalHours |-> 1]>>

InitLive ==
    /\ now = LiveNow
    /\ sources = TwoSources
    /\ articles = {}
    /\ InitIdle

CronSteps ==
    \/ \E ok \in BOOLEAN : ParseAgain("cron", ok)
    \/ StampRead("cron")
    \/ \E ok \in BOOLEAN : StampAgain("cron", ok)
    \/ Respond("cron")

ManualSteps ==
    \/ \E ok \in BOOLEAN : ParseAgain("manual", ok)
    \/ StampRead("manual")
    \/ \E ok \in BOOLEAN : StampAgain("manual", ok)
    \/ Respond("manual")

NextLive ==
    \/ Elapse
    \/ CronAgain
    \/ \E id \in SourceIds : ManualAgain(id)
    \/ CronSteps
    \/ ManualSteps

\* The scheduler's request is made again and again, the hours pass, and a
\* handler that is running goes on: each awaited fetch, read and write ends,
\* with a value or with a throw.
SpecLive ==
    /\ InitLive
    /\ [][NextLive]_vars
    /\ WF_vars(Elapse)
    /\ WF_vars(CronAgain)
    /\ WF_vars(CronSteps)

\* ------------------------------------------------------------ properties
Last(seq) == seq[Len(seq)]

\* This step finished the source sweep p was processing.
Finished(p) == Len(results'[p]) = Len(results[p]) + 1

\* This step started sweep p.
Started(p) == pc[p] = "idle" /\ pc'[p] # "idle"

SourceById(srcs, id) == srcs[findIndex(srcs, id)]

ResultIds(p) == [i \in 1..Len(results[p]) |-> results[p][i].sourceId]

\* The due condition as the specification words it.
DueBySpec(s, t) ==
    s.enabled /\ (s.lastFetchedAt = NullTime
                  \/ t - s.lastFetchedAt >= s.fetchIntervalHours * 3600 * 1000)

\* C1: adding an article whose URL is stored returns the stored record with
\* no field changed (whatever title the candidate carries, and with the
\* promoted flag it has) and writes nothing, so that after any sequence of
\* adds the store holds at most one record per URL.
UrlUnique == \A a, b \in articles : a.url = b.url => a = b

AddReturnsExisting(p) ==
    (pc[p] = "addCheck" /\ pc'[p] # "addCheck" /\ \E a \in articles : a.url = item[p].url)
    => /\ articles' = articles
       /\ saved'[p] \in articles
       /\ saved'[p].url = item[p].url
       /\ pc'[p] = "count"

C1_IdempotentAdd == [][UrlUnique' /\ \A p \in Procs : AddReturnsExisting(p)]_vars

\* A second add of a promoted article, with another title, got the record back.
C1_Witness ==
    \E p \in Procs :
        /\ pc[p] = "count"
        /\ created[p] = 0
        /\ saved[p] \in articles
        /\ saved[p].savedToKnowledge
        /\ saved[p].title # item[p].title
        /\ Cardinality(articles) = 1

\* C2: the scheduled sweep selects a source if and only if it is enabled and
\* was never polled or was polled at least its interval ago; a disabled source
\* is never selected, a 24 h source polled 23 h ago is not, the same source
\* polled 24 h 01 min ago is.
SelectedIds(p) == {selected[p][i] : i \in 1..Len(selected[p])}

C2_DueIff ==
    mode["cron"] = "cron" =>
        /\ \A i \in 1..Len(sources) :
              sources[i].id \in SelectedIds("cron") <=> DueBySpec(sources[i], now)
        /\ \A i \in 1..Len(sources) :
              ~sources[i].enabled => sources[i].id \notin SelectedIds("cron")
        /\ \A i \in 1..Len(sources) :
              (/\ sources[i].enabled
               /\ sources[i].fetchIntervalHours = 24
               /\ sources[i].lastFetchedAt # NullTime)
              => /\ now - sources[i].lastFetchedAt = 23 * HourMs
                      => sources[i].id \notin SelectedIds("cron")
                 /\ now - sources[i].lastFetchedAt = 24 * HourMs + MinuteMs
                      => sources[i].id \in SelectedIds("cron")

\* A sweep at 24 h 01 min took the 24 h source polled at 0 and left a disabled,
\* never polled source out.
C2_Witness ==
    /\ mode["cron"] = "cron"
    /\ now = 24 * HourMs + MinuteMs
    /\ \E i, j \in 1..Len(sources) :
          /\ sources[i].fetchIntervalHours = 24
          /\ sources[i].lastFetchedAt = 0
          /\ sources[i].id \in SelectedIds("cron")
          /\ ~sources[j].enabled
          /\ sources[j].lastFetchedAt = NullTime
          /\ sources[j].id \notin SelectedIds("cron")

\* C3: fetchAndExtractPage issues no request for a URL whose host is a literal
\* IPv4 address in 10/8, 127/8, 0/8, 169.254/16, 172.16/12, 192.168/16,
\* 100.64/10 or at or above 224.0.0.0, nor for a name with at least one such
\* address in its DNS answer; a well-formed URL whose addresses are all public
\* is not rejected, and the GET goes to that URL.
Top16(ip) == ip.a * 256 + ip.b

InBlock(ip, a, b, len) == Top16(ip) \div 2^(16 - len) = (a * 256 + b) \div 2^(16 - len)

ListedPrivate(ip) ==
    \/ InBlock(ip, 10, 0, 8)
    \/ InBlock(ip, 127, 0, 8)
    \/ InBlock(ip, 0, 0, 8)
    \/ InBlock(ip, 169, 254, 16)
    \/ InBlock(ip, 172, 16, 12)
    \/ InBlock(ip, 192, 168, 16)
    \/ InBlock(ip, 100, 64, 10)
    \/ Top16(ip) >= 224 * 256

HostPrivate(f) ==
    \/ f.url.kind = "ip4" /\ ListedPrivate(MkIp(f.url.a, f.url.b))
    \/ \E ip \in f.lookups : ListedPrivate(ip)

HostPublic(f) ==
    \/ f.url.kind = "ip4" /\ ~ListedPrivate(MkIp(f.url.a, f.url.b))
    \/ f.url.kind = "name" /\ f.lookups # {} /\ \A ip \in f.lookups : ~ListedPrivate(ip)

WellFormed(u) ==
    /\ u.scheme \in {"http", "https"}
    /\ ~u.creds
    /\ u.name # <<"localhost">>
    /\ ~(Len(u.name) >= 2 /\ Last(u.name) = "local")

C3_SafeFetcher ==
    /\ HostPrivate(fetcher) => fetcher.pc \notin {"fetch", "done"} /\ wire = {}
    /\ wire # {} => wire = {fetcher.url} /\ fetcher.pc = "done" /\ HostPublic(fetcher)
    /\ WellFormed(fetcher.url) /\ HostPublic(fetcher) => fetcher.pc \in {"fetch", "done"}

\* A name with a public and a carrier-grade NAT address was rejected with no
\* request made.
C3_Witness ==
    /\ fetcher.pc = "rejected"
    /\ fetcher.url.kind = "name"
    /\ MkIp(100, 64) \in fetcher.lookups
    /\ MkIp(93, 184) \in fetcher.lookups
    /\ wire = {}

\* C4: when a sweep finishes a source, in every outcome, the source's
\* lastFetchedAt is the time of the stamp: the one taken for
\* updateWatchedSource, or the time of the failure.
StampedAtFinish(p) ==
    LET i == findIndex(sources', cur[p].id)
    IN  i # 0 => sources'[i].lastFetchedAt = (IF pc[p] = "stampWrite" THEN stampAt[p] ELSE now)

C4_StampedInEveryOutcome == [][\A p \in Procs : Finished(p) => StampedAtFinish(p)]_vars

\* C5: the content fetch of a source's URL in a sweep is issued only for a URL
\* the robots check has allowed.
FetchedSource(p) == pc[p] = "parse" /\ (pc'[p] # "parse" \/ Finished(p))

C5_RobotsBeforeFetch ==
    [][\A p \in Procs : FetchedSource(p) => wire' \subseteq robotsChecked]_vars

\* C6: every request made while polling a source or detecting its type is to
\* a URL assertSafeHttpUrl accepts, under some DNS answer.
C6_OnlySafeRequests ==
    \A u \in wire : \E lookups \in DnsAnswers : assertSafeHttpUrl(u, lookups) = "ok"

\* C7: the newArticles a sweep reports for a source is the number of adds that
\* created a record while it processed the source.
C7_CountsCreated ==
    [][\A p \in Procs : Finished(p) => Last(results'[p]).newArticles = created[p]]_vars

\* C8: every throw while a source is processed is recorded in the error list
\* of that source, the errors recorded reach the source's result entry, and
\* the sources after it are still processed: the sweep completes with one
\* result entry per source it took, in order.
RecordedBy(p) ==
    \/ ~Finished(p) /\ Len(errors'[p]) = Len(errors[p]) + 1
    \/ /\ Finished(p)
       /\ Last(results'[p]).sourceId = cur[p].id
       /\ Len(Last(results'[p]).errors) = Len(errors[p]) + 1

KeepsErrors(p) ==
    Finished(p) =>
        /\ Last(results'[p]).sourceId = cur[p].id
        /\ SubSeq(Last(results'[p]).errors, 1, Len(errors[p])) = errors[p]

Complete(p) ==
    /\ pc[p] \notin {"idle", "respond"} => ResultIds(p) \o <<cur[p].id>> \o IdsOf(queue[p]) = selected[p]
    /\ pc[p] = "respond" /\ status[p] = 200 => ResultIds(p) = selected[p]

C8_FailureIsolated ==
    [][/\ throws' = throws + 1 => \E p \in Procs : RecordedBy(p)
       /\ \A p \in Procs : KeepsErrors(p) /\ Complete(p)']_vars

\* The first of two sources failed, the second was processed, the sweep
\* answered with both entries.
C8_Witness ==
    \E p \in Procs :
        /\ pc[p] = "respond"
        /\ status[p] = 200
        /\ Len(results[p]) = 2
        /\ results[p][1].errors # <<>>
        /\ results[p][2].errors = <<>>

\* C9 as stated: a scheduled sweep takes exactly the due sources, a manual
\* trigger exactly one source, and a source that is not due is taken only as
\* the target of a manual single-source trigger.
DueIds == IdsOf(SelectSeq(sources, LAMBDA s : DueBySpec(s, now)))

EnabledIds == IdsOf(SelectSeq(sources, LAMBDA s : s.enabled))

C9_TwoModes ==
    [][\A p \in Procs : Started(p) =>
          /\ p = "cron" => selected'[p] = DueIds
          /\ p = "manual" => Len(selected'[p]) <= 1
          /\ \A k \in 1..Len(selected'[p]) :
                ~DueBySpec(SourceById(sources, selected'[p][k]), now) => mode'[p] = "single"]_vars

\* C9, amended: a scheduled sweep takes exactly the due sources; a manual
\* trigger with a source id takes that one source, due or not, enabled or
\* not; a manual trigger without a source id takes every enabled source, due
\* or not; a sweep processes the sources it took, each once, in order.
C9_ThreeModes ==
    [][\A p \in Procs :
          /\ Started(p) =>
                /\ p = "cron" => mode'[p] = "cron" /\ selected'[p] = DueIds
                /\ p = "manual" => mode'[p] \in {"single", "all"}
                /\ mode'[p] = "single" =>
                      \/ status'[p] = 404 /\ selected'[p] = <<>>
                      \/ \E id \in SourceIds :
                            findIndex(sources, id) # 0 /\ selected'[p] = <<id>>
                /\ mode'[p] = "all" => selected'[p] = EnabledIds
          /\ Finished(p) => Last(results'[p]).sourceId = selected[p][Len(results'[p])]
          /\ pc'[p] = "respond" /\ status'[p] = 200 => Len(results'[p]) = Len(selected'[p])]_vars

\* A manual trigger without a source id is processing a source that is not due.
C9_Witness ==
    \E p \in Procs :
        /\ mode[p] = "all"
        /\ pc[p] = "parse"
        /\ findIndex(sources, cur[p].id) # 0
        /\ ~DueBySpec(SourceById(sources, cur[p].id), now)

\* C10: after the fetch of a source failed outright at time t, the selection
\* of a scheduled sweep does not hold the source at any time before
\* t + its interval.
FailedOutright(p) == pc[p] = "parse" /\ Finished(p)

NotDueUntilInterval(p) ==
    LET s == SourceById(sources', cur[p].id)
    IN  \A t \in {now, now + s.fetchIntervalHours * HourMs - 1} :
            \A k \in 1..Len(getDueForFetch(sources', t)) :
                getDueForFetch(sources', t)[k].id # cur[p].id

C10_NoEarlyRetry ==
    [][\A p \in Procs : FailedOutright(p) => NotDueUntilInterval(p)]_vars

\* C11: the GET of the Safe Fetcher connects to an address that was
\* validated: the literal address of the URL, or one of the addresses the
\* lookup of assertSafeHttpUrl answered, and never a private one.
C11_ConnectsToValidated ==
    fetcher.pc = "done" =>
        /\ ~ListedPrivate(fetcher.peer)
        /\ fetcher.url.kind = "name" => fetcher.peer \in fetcher.lookups

\* C12: when the request for robots.txt answers a status that is not ok, or
\* throws, the check returns allowed = true with no reason (and no crawl
\* delay), whatever the URL.
RobotsFailed(outcome) ==
    \E body \in RuleSets : RobotsFetched(outcome, body)

C12_PermissiveOnFailure ==
    [][(\E outcome \in FetchOutcomes \ {"ok"} : RobotsFailed(outcome))
        => robot'.result = [allowed |-> TRUE, crawlDelay |-> 0, reason |-> ""]]_vars

\* The request for robots.txt has failed for a path the rules of the site
\* would disallow, and the check answers allowed.
C12_Witness ==
    /\ robot.pc = "returned"
    /\ robot.url.path = "/a1"
    /\ robot.result.allowed
    /\ robot.result.reason = ""
    /\ \E e \in robotsCache : e.origin = robot.origin /\ e.robots = EmptyRules /\ e.fetchedAt = robot.now

\* C13: a check made less than one hour after the check that fetched
\* robots.txt for the origin makes no request and answers from the cached
\* rules; a check made one hour after it or later requests robots.txt again,
\* and the entry it writes replaces the old one.
EntryOf(origin) == CHOOSE e \in robotsCache : e.origin = origin

StartedCheck == robot.pc = "idle" /\ robot'.pc # "idle"

C13_CachedForAnHour ==
    [][/\ StartedCheck =>
            LET origin == robot'.origin
            IN  IF \E e \in robotsCache : e.origin = origin
                THEN IF now - EntryOf(origin).fetchedAt < 3600 * 1000
                     THEN /\ wire' = {}
                          /\ robot'.pc = "returned"
                          /\ robot'.result = resultOf(EntryOf(origin).robots, robot'.url)
                     ELSE wire' = {robotsUrlOf(origin)} /\ robot'.pc = "fetching"
                ELSE wire' = {robotsUrlOf(origin)} /\ robot'.pc = "fetching"
       /\ robot.pc = "fetching" /\ robot'.pc = "returned" =>
            /\ \E e \in robotsCache' : e.origin = robot.origin /\ e.fetchedAt = robot.now
            /\ \A e, f \in robotsCache' : e.origin = f.origin => e = f]_vars

\* Robots.txt was fetched at 0; a check of another URL of the origin at 59
\* minutes was answered from the cache.
C13_Witness ==
    /\ robot.pc = "returned"
    /\ robot.now = HourMs - MinuteMs
    /\ wire = {}
    /\ \E e \in robotsCache : e.origin = robot.origin /\ e.fetchedAt = 0

\* C14: no two stored articles have the same URL, also when two sweeps that
\* ingest the URL overlap.
C14_UrlUniqueConcurrent ==
    \A a, b \in articles : a.url = b.url => a.id = b.id

\* C17: every stored article's source is stored: once a source is deleted
\* none of its articles is left, also when a sweep of the source overlaps
\* the delete.
C17_NoOrphans ==
    \A a \in articles : findIndex(sources, a.sourceId) # 0

\* C15: after any sequence of adds, updates and deletes of watched sources
\* no two stored sources have the same URL; an add of a URL a stored source
\* has (the URL handed to addWatchedSource: the feed URL detected) answers
\* an error and leaves the source store as it was.
SourceUrlUnique ==
    \A i, j \in 1..Len(sources) : sources[i].url = sources[j].url => i = j

AddsStoredUrl ==
    \E u \in SourceUrls, o \in {"direct", "link", "linkFail"}, l \in SourceUrls,
       h \in IntervalChoices :
        /\ AddSource(u, o, l, h)
        /\ \E i \in 1..Len(sources) : sources[i].url = (IF o = "link" THEN l ELSE u)

C15_SourceUrlUnique ==
    [][/\ SourceUrlUnique'
       /\ AddsStoredUrl =>
            /\ sources' = sources
            /\ reply'.status = 400
            /\ reply'.error = "This URL is already being watched"]_vars

\* The add of a URL that is stored was refused.
C15_Witness ==
    /\ reply = Reply(400, "This URL is already being watched")
    /\ \E i \in 1..Len(sources) : sources[i].url \in wire

\* C16: an article that is stored keeps every field but savedToKnowledge
\* through every step (it is re-ingested, other articles are added, articles
\* are saved), and saving an article changes nothing but that flag of that
\* article: every other article is in the store as it was.
SameButFlag(a, b) == [b EXCEPT !.savedToKnowledge = a.savedToKnowledge] = a

SavesArticle(a) ==
    \E lookups \in SaveAnswers, ok \in BOOLEAN : MarkSaved(a, lookups, ok)

C16_FieldsImmutable ==
    [][/\ \A a \in articles : \E b \in articles' : b.id = a.id
       /\ \A a \in articles, b \in articles' : b.id = a.id => SameButFlag(a, b)
       /\ \A a \in articles : SavesArticle(a) =>
            /\ articles \ {a} \subseteq articles'
            /\ articles' \subseteq articles \cup {[a EXCEPT !.savedToKnowledge = TRUE]}]_vars

\* An article was saved while another article is in the store, unsaved.
C16_Witness ==
    /\ reply = Reply(200, "")
    /\ \E a, b \in articles :
        /\ a.id # b.id
        /\ a.savedToKnowledge
        /\ wire = {a.url}
        /\ ~b.savedToKnowledge

IsFocusArea(k, orgProfile) ==
    \E i \in 1..Len(orgProfile.focusAreas) : trim(toLowerCase(orgProfile.focusAreas[i])) = k

FocusMatches(r, orgProfile) ==
    Cardinality({i \in 1..Len(r.matchedKeywords) : IsFocusArea(r.matchedKeywords[i], orgProfile)})

C19_ScoreFormula ==
    tag.pc = "done" =>
        LET F == FocusMatches(tag.result, tag.orgProfile)
            G == Len(tag.result.matchedKeywords) - F
            sum == 25 * F + 15 * G
        IN  /\ tag.result.relevanceScore = IF sum > 100 THEN 100 ELSE sum
            /\ (/\ tag.orgProfile = [focusAreas |-> <<SeaTurtles>>, preferredTerms |-> <<>>,
                                     objectives |-> <<>>]
                /\ tag.article = [title |-> TitleNesting, excerpt |-> {}])
               => tag.result = [matchedKeywords |-> <<SeaTurtles>>, relevanceScore |-> 25]

\* C20 as stated: parseHtmlNewsPage returns no two articles with the same
\* URL, and when the first links of two containers of the page resolve to
\* the same URL, exactly one article returned has that URL.
Carrying(u) == {i \in 1..Len(page.result) : page.result[i].url = u}

LinksTo(u) ==
    {i \in 1..Len(page.containers) :
        /\ page.containers[i].href.kind # "none"
        /\ resolveUrl(page.containers[i].href, page.url) = u}

SharedUrls ==
    {u \in {resolveUrl(h, page.url) : h \in PageHrefs \ {NoHref}} : Cardinality(LinksTo(u)) >= 2}

FirstSelector == Head(ContainerSelectors)

FirstKept(u) ==
    /\ u # page.url
    /\ ~isNonArticle(u)
    /\ \E i \in LinksTo(u) :
        /\ FirstSelector \in page.containers[i].selectors
        /\ Len(page.containers[i].title) >= 10
        /\ \A j \in LinksTo(u) :
            FirstSelector \in page.containers[j].selectors => i <= j

SelectorOf(c) == CHOOSE s \in c.selectors : \A t \in c.selectors : s <= t

ReachedBefore(i, j) ==
    LET si == SelectorOf(page.containers[i])
        sj == SelectorOf(page.containers[j])
    IN  si < sj \/ (si = sj /\ i <= j)

LinkedUrls ==
    {resolveUrl(page.containers[i].href, page.url) :
        i \in {k \in 1..Len(page.containers) : page.containers[k].href.kind # "none"}}

FirstTitleShort(u) ==
    \E i \in LinksTo(u) :
        /\ \A j \in LinksTo(u) : ReachedBefore(i, j)
        /\ Len(page.containers[i].title) < 10

\* C29: when the first container that links to a URL has a title that is
\* empty or shorter than 10 characters, the page gives no article for that
\* URL, also when a later container that links to it has a valid title.
C29_SeenBeforeTitle ==
    page.pc = "done" =>
        \A u \in LinkedUrls : FirstTitleShort(u) => Carrying(u) = {}

\* An article link whose first container has a short title and whose second
\* container, under the same selector, has a valid one: no article.
C29_Witness ==
    /\ page.pc = "done"
    /\ FirstTitleShort(UrlArticle)
    /\ \E i, j \in LinksTo(UrlArticle) :
        /\ i < j
        /\ page.containers[i].selectors = page.containers[j].selectors
        /\ Len(page.containers[j].title) >= 10
    /\ Carrying(UrlArticle) = {}

\* An article of the result comes from a container of the selector: the
\* container has the selector, the title and the link of the article.
FromSelector(a, s) ==
    \E i \in 1..Len(page.containers) :
        /\ s \in page.containers[i].selectors
        /\ page.containers[i].href.kind # "none"
        /\ resolveUrl(page.containers[i].href, page.url) = a.url
        /\ page.containers[i].title = a.title

ResultArticles == {page.result[i] : i \in 1..Len(page.result)}

Matched(s) == \E i \in 1..Len(page.containers) : s \in page.containers[i].selectors

Selectors == {ContainerSelectors[i] : i \in 1..Len(ContainerSelectors)}

\* C23 as stated: the articles returned come from the first selector of the
\* list that matches a container; once a selector has matched a container no
\* later selector is tried.
C23_FirstMatching ==
    page.pc = "done" =>
        \A s \in Selectors :
            (Matched(s) /\ \A t \in Selectors : t < s => ~Matched(t))
                => \A a \in ResultArticles : FromSelector(a, s)

\* C23 as the extractor has it: the articles returned come from one selector,
\* the first of the list whose containers gave an article; a selector whose
\* containers gave no article is followed by the next one.
Keeps(i) ==
    LET c == page.containers[i]
        u == resolveUrl(c.href, page.url)
    IN  /\ c.href.kind # "none"
        /\ u # page.url
        /\ ~isNonArticle(u)
        /\ Len(c.title) >= 10
        /\ \A j \in LinksTo(u) : ReachedBefore(i, j)

Yields(s) == \E i \in 1..Len(page.containers) : SelectorOf(page.containers[i]) = s /\ Keeps(i)

C23_FirstYielding ==
    page.pc = "done" =>
        /\ \E s \in Selectors : \A a \in ResultArticles : FromSelector(a, s)
        /\ \A s \in Selectors :
            (Yields(s) /\ \A t \in Selectors : t < s => ~Yields(t))
                => /\ page.result # <<>>
                   /\ \A a \in ResultArticles : FromSelector(a, s)
        /\ (\A s \in Selectors : ~Yields(s)) => page.result = <<>>

\* The first selector matched a container that gave no article, and the
\* article returned is of a container of the second selector.
C23_Witness ==
    /\ page.pc = "done"
    /\ Matched(1)
    /\ ~Yields(1)
    /\ page.result # <<>>
    /\ \A a \in ResultArticles : FromSelector(a, 2) /\ ~FromSelector(a, 1)

\* C21: parseRssFeed leaves out every item without a non-empty title or
\* without a non-empty link and raises no error for it, every article it
\* returns has a non-empty title and a non-empty URL, and a feed without a
\* valid item gives the empty list.
IsEmpty(v) == v.missing \/ trim(v).word = ""

ValidItems == SelectSeq(feed.items, LAMBDA entry : ~IsEmpty(entry.title) /\ ~IsEmpty(entry.link))

C21_DropsInvalidItems ==
    feed.pc = "done" =>
        /\ Len(feed.result) = Len(ValidItems)
        /\ \A i \in 1..Len(feed.result) :
            /\ feed.result[i].title.word # ""
            /\ feed.result[i].url.word # ""
        /\ ValidItems = <<>> => feed.result = <<>>

\* C22: the Safe Fetcher rejects every IPv6 target that is ::1, lies in
\* fe80::/10 (first group fe80 to febf) or lies in fc00::/7 (first group
\* fc00 to fdff), as the host of the URL or as an address of its DNS answer.
ListedPrivate6(ip) ==
    /\ ip.family = 6
    /\ \/ ip.a = 0 /\ ip.b = 1
       \/ ip.a \div 2^6 = 65152 \div 2^6
       \/ ip.a \div 2^9 = 64512 \div 2^9

C22_RejectsPrivateIpv6 ==
    (\/ fetcher.url.kind = "ip6" /\ ListedPrivate6(MkIp6(fetcher.url.a, fetcher.url.b))
     \/ \E ip \in fetcher.lookups : ListedPrivate6(ip))
        => fetcher.pc \notin {"fetch", "done"} /\ wire = {}

\* C27: a failed request for robots.txt (an error, a status that is not ok)
\* is cached like a successful one: the check that made it stores an entry
\* without rules under its own time t, and every check of the origin before
\* t + 1 hour answers allowed = true from that entry with no request,
\* whatever robots.txt would say by then.
C27_FailureCached ==
    [][/\ (\E outcome \in FetchOutcomes \ {"ok"} : RobotsFailed(outcome)) =>
            /\ [origin |-> robot.origin, robots |-> EmptyRules, fetchedAt |-> robot.now,
                ttl |-> HourMs] \in robotsCache'
            /\ \A e \in robotsCache' : e.origin = robot.origin => e.robots = EmptyRules
       /\ StartedCheck =>
            \A e \in robotsCache :
                (e.origin = robot'.origin /\ e.robots = EmptyRules /\ now < e.fetchedAt + HourMs)
                    => /\ wire' = {}
                       /\ robot'.pc = "returned"
                       /\ robot'.result = [allowed |-> TRUE, crawlDelay |-> 0, reason |-> ""]]_vars

\* 59 minutes after the entry without rules was stored, a check of the path
\* that the rules of the site disallow is answered allowed, with no request.
C27_Witness ==
    /\ robot.pc = "returned"
    /\ robot.now = HourMs - MinuteMs
    /\ robot.url.path = "/a1"
    /\ robot.result.allowed
    /\ wire = {}
    /\ [origin |-> robot.origin, robots |-> EmptyRules, fetchedAt |-> 0, ttl |-> HourMs]
            \in robotsCache

\* C24: detectFeedType throws only when the fetch of the URL it was given
\* fails (an error, the timeout, a status that is not ok); when the fetch or
\* the check of the feed link it found fails (an error, the timeout, a status
\* that is not ok, a body without a feed marker) it returns type HTML with
\* the URL it was given as feedUrl.
VerifyFails ==
    \E outcome \in VerifyOutcomes \ {"feed"}, title \in DetectTitles :
        DetectVerified(outcome, title)

OriginalFails ==
    \E outcome \in {"error", "timeout", "status"}, code \in StatusCodes :
        DetectFetched(outcome, code, "", UrlNone)

C24_OnlyOriginalFails ==
    [][/\ (detect.pc # "threw" /\ detect'.pc = "threw") => OriginalFails
       /\ OriginalFails => detect'.pc = "threw"
       /\ VerifyFails =>
            /\ detect'.pc = "returned"
            /\ detect'.result.type = "HTML"
            /\ detect'.result.feedUrl = detect.url]_vars

\* The page named a feed link other than its own URL, and the detector
\* returned the page as an HTML source: the link did not hold.
C24_Witness ==
    /\ detect.pc = "returned"
    /\ detect.rssUrl \notin {UrlNone, detect.url}
    /\ detect.result.type = "HTML"
    /\ detect.result.feedUrl = detect.url

\* C25: however the calls of initStorage interleave, init() is called at
\* most once on the cached provider, the promise in force is the one of the
\* cached provider, a call of initStorage ends only when the promise it was
\* given is settled, and a caller that takes the provider while that promise
\* is still in force (no closeStorage has reset it) receives the instance
\* init() ran on.
InitsOf(instance) == {p \in 1..Len(storage.promises) : storage.promises[p].provider = instance}

C25_InitOnce ==
    /\ [](/\ \A instance \in 1..storage.instances : Cardinality(InitsOf(instance)) <= 1
          /\ storage.initPromise # 0 =>
                storage.promises[storage.initPromise].provider = storage.cachedProvider)
    /\ [][\A c \in Callers :
            /\ (storage.callers[c].pc = "awaiting" /\ storage'.callers[c].pc = "ready"
                    /\ storage.callers[c].via = "factory")
                 => storage.promises[storage.callers[c].promise].state # "pending"
            /\ (storage.callers[c].pc = "ready" /\ storage'.callers[c].pc = "holding"
                    /\ storage.initPromise = storage.callers[c].promise)
                 => /\ storage'.callers[c].got = storage.promises[storage.callers[c].promise].provider
                    /\ \A d \in Callers \ {c} :
                          (storage.callers[d].pc = "holding"
                              /\ storage.callers[d].promise = storage.callers[c].promise)
                             => storage.callers[d].got = storage'.callers[c].got]_vars

\* Two callers called initStorage while one init() was running, both were
\* given the one promise, and both hold the instance it initialised.
C25_Witness ==
    /\ Len(storage.promises) = 1
    /\ storage.promises[1].state = "resolved"
    /\ \A c \in Callers :
          /\ storage.callers[c].pc = "holding"
          /\ storage.callers[c].promise = 1
          /\ storage.callers[c].got = storage.promises[1].provider

\* C26: the write of an update(id, {lastFetchedAt}) changes lastFetchedAt of
\* source id and nothing else: every other source, and every other field of
\* source id, is after the write what it was in the stored list just before
\* it, so that no write completed in between is lost.
Stamps(p) == pc[p] = "stampWrite" /\ pc'[p] # "stampWrite"

C26_UpdateKeepsOthers ==
    [][\A p \in DOMAIN pc :
        Stamps(p) =>
            /\ Len(sources') = Len(sources)
            /\ \A i \in 1..Len(sources) :
                  IF sources[i].id = cur[p].id
                  THEN [sources'[i] EXCEPT !.lastFetchedAt = 0]
                           = [sources[i] EXCEPT !.lastFetchedAt = 0]
                  ELSE sources'[i] = sources[i]]_vars

\* C28: on the file provider and on the PostgreSQL provider, add of a
\* candidate with any relevanceScore from 0 to 100 succeeds, and getByUrl
\* afterwards returns a record with the relevanceScore that was passed in.
C28_SameOnBothProviders ==
    articleStore.pc \in {"added", "got"} =>
        /\ articleStore.error = ""
        /\ articleStore.row = articleStore.relevanceScore
        /\ articleStore.pc = "got" => articleStore.got = articleStore.relevanceScore

\* C30: with the scheduler calling again and again and the hours passing,
\* a source that stays enabled is, again and again, processed by a scheduled
\* sweep: it is never the case that from some moment on the source is
\* enabled and no scheduled sweep enters fetchSourceArticles for it.
EnabledSource(id) == findIndex(sources, id) # 0 /\ sources[findIndex(sources, id)].enabled

Processes(p, id) == pc[p] = "parse" /\ cur[p].id = id

C30_ScheduledAgain ==
    \A id \in SourceIds : []<>(~EnabledSource(id) \/ Processes("cron", id))

\* C30, amended: a source that stays enabled is, again and again, processed
\* by a sweep, a scheduled one or a fetch by hand.
C30_ProcessedAgain ==
    \A id \in SourceIds :
        []<>(~EnabledSource(id) \/ Processes("cron", id) \/ Processes("manual", id))

\* A scheduled sweep processes the second source again, which it has
\* stamped before, in the sweep in which the first source was processed and
\* is still without a stamp: its poll failed.
C30_Witness ==
    /\ Processes("cron", 2)
    /\ EnabledSource(2)
    /\ sources[findIndex(sources, 2)].lastFetchedAt # NullTime
    /\ mode["manual"] = "none"
    /\ selected["cron"] = <<1, 2>>
    /\ sources[findIndex(sources, 1)].lastFetchedAt = NullTime
    /\ results["cron"] # <<>>
====
